---------------------------- MODULE Spec2Model ----------------------------
(***************************************************************************)
(* Batched grand-product argument of jolt-core                             *)
(* (jolt-core/src/subprotocols/grand_product.rs).                          *)
(*                                                                         *)
(* Vectors are sequences; the code's 0-based position i is element i+1,    *)
(* read through At and written through Put.                                *)
(***************************************************************************)
EXTENDS Integers, Sequences, FiniteSets, TLC

(***************************************************************************)
(* The field F: JoltField, instantiated with the prime field of order P.   *)
(***************************************************************************)
P == 7

F == 0 .. (P - 1)

Zero == 0

One == 1

FAdd(a, b) == (a + b) % P

FSub(a, b) == (a + P - b) % P

FMul(a, b) == (a * b) % P

FInv(a) == CHOOSE x \in F : FMul(a, x) = One

IsOne(a) == a = One

\* F::mul_0_optimized: multiplication that shortcuts a zero operand.
Mul0Optimized(a, b) == IF a = Zero \/ b = Zero THEN Zero ELSE FMul(a, b)

\* F::mul_1_optimized: multiplication that shortcuts a one operand.
Mul1Optimized(a, b) == IF a = One THEN b ELSE IF b = One THEN a ELSE FMul(a, b)

(***************************************************************************)
(* Vec<_> helpers.                                                         *)
(***************************************************************************)
At(s, i) == s[i + 1]

Put(s, i, v) == [s EXCEPT ![i + 1] = v]

Range0(n) == 0 .. (n - 1)

Reverse(s) == [i \in 1 .. Len(s) |-> s[Len(s) + 1 - i]]

Truncate(s, n) == SubSeq(s, 1, n)

RECURSIVE FSum(_)
FSum(s) == IF s = <<>> THEN Zero ELSE FAdd(s[1], FSum(Tail(s)))

RECURSIVE FProduct(_)
FProduct(s) == IF s = <<>> THEN One ELSE FMul(s[1], FProduct(Tail(s)))

\* usize::log_2 on a power of two.
RECURSIVE Log2(_)
Log2(n) == IF n <= 1 THEN 0 ELSE 1 + Log2(n \div 2)

RECURSIVE Pow2(_)
Pow2(n) == IF n = 0 THEN 1 ELSE 2 * Pow2(n - 1)

(***************************************************************************)
(* UniPoly / CompressedUniPoly: a polynomial is the sequence of its        *)
(* coefficients, constant term first.                                      *)
(***************************************************************************)
\* UniPoly::from_evals on the four evaluations at 0, 1, 2, 3.
FromEvals(e) ==
    LET c3 == FMul(FSub(FAdd(At(e, 3), FMul(3, At(e, 1))),
                        FAdd(FMul(3, At(e, 2)), At(e, 0))), FInv(6 % P))
        d2 == FSub(FAdd(At(e, 2), At(e, 0)), FMul(2, At(e, 1)))
        c2 == FSub(FMul(d2, FInv(2)), FMul(3, c3))
        c1 == FSub(FSub(FSub(At(e, 1), At(e, 0)), c2), c3)
    IN  <<At(e, 0), c1, c2, c3>>

\* UniPoly::evaluate: the sum of coeffs[i] * r^i.
RECURSIVE Evaluate(_, _)
Evaluate(poly, r) ==
    IF poly = <<>> THEN Zero
    ELSE FAdd(poly[1], FMul(r, Evaluate(Tail(poly), r)))

\* UniPoly::compress: the linear term is dropped.
Compress(poly) == <<poly[1]>> \o SubSeq(poly, 3, Len(poly))

\* CompressedUniPoly::decompress: the linear term is recovered from the hint
\* g(0) + g(1) = hint, that is hint - c0 - (c0 + c2 + c3 + ...).
Decompress(cpoly, hint) ==
    LET linear == FSub(FSub(hint, cpoly[1]), FSum(cpoly))
    IN  <<cpoly[1], linear>> \o Tail(cpoly)

Degree(poly) == Len(poly) - 1

(***************************************************************************)
(* EqPolynomial::new(r).evals() and DensePolynomial::bound_poly_var_bot.   *)
(***************************************************************************)
\* evals of eq(x; r) over the hypercube; r[0] is the most significant bit of
\* the index x, the last element of r the least significant one.
RECURSIVE EqEvals(_)
EqEvals(r) ==
    IF r = <<>> THEN <<One>>
    ELSE LET prev == EqEvals(SubSeq(r, 1, Len(r) - 1))
             last == r[Len(r)]
         IN  [i \in 1 .. 2 * Len(prev) |->
                 LET scalar == prev[(i + 1) \div 2]
                 IN  IF i % 2 = 0 THEN FMul(scalar, last)
                     ELSE FSub(scalar, FMul(scalar, last))]

\* bound_poly_var_bot: binds the least significant variable, halving the table.
BoundPolyVarBot(Z, r) ==
    [i \in 1 .. (Len(Z) \div 2) |->
        FAdd(Z[2 * i - 1], FMul(r, FSub(Z[2 * i], Z[2 * i - 1])))]


(***************************************************************************)
(* ProofTranscript: a Fiat-Shamir state.  st is the running hash state,    *)
(* log the operations performed on it, in order, with the values absorbed  *)
(* or drawn.                                                               *)
(***************************************************************************)
TMod == 1009

LabelCode(label) ==
    CASE label = "rand_coeffs_next_layer" -> 11
      [] label = "challenge_r_layer" -> 23
      [] label = "challenge_nextround" -> 37
      [] label = "poly" -> 41
      [] label = "sumcheck left claim" -> 53
      [] label = "sumcheck right claim" -> 67
      [] OTHER -> 79

Absorb(st, x) == (31 * st + x + 1) % TMod

RECURSIVE AbsorbAll(_, _)
AbsorbAll(st, xs) ==
    IF xs = <<>> THEN st ELSE AbsorbAll(Absorb(st, xs[1]), Tail(xs))

NewTranscript(label) == [st |-> label % TMod, log |-> <<>>]

\* challenge_scalar: the state moves on and the challenge is read off it.
ChallengeState(st, label) == Absorb(st, LabelCode(label))

ChallengeValue(st, label) == ChallengeState(st, label) % P

ChallengeScalar(tr, label) ==
    [st |-> ChallengeState(tr.st, label),
     log |-> Append(tr.log, <<"challenge_scalar", label,
                              ChallengeValue(tr.st, label)>>)]

LastChallenge(tr) == tr.log[Len(tr.log)][3]

\* challenge_vector: len successive challenge_scalar draws.
RECURSIVE ChallengeStates(_, _, _)
ChallengeStates(st, label, len) ==
    IF len = 0 THEN <<>>
    ELSE <<ChallengeState(st, label)>>
            \o ChallengeStates(ChallengeState(st, label), label, len - 1)

ChallengeVector(tr, label, len) ==
    LET sts == ChallengeStates(tr.st, label, len)
        vals == [i \in 1 .. len |-> sts[i] % P]
    IN  [st |-> IF len = 0 THEN tr.st ELSE sts[len],
         log |-> Append(tr.log, <<"challenge_vector", label, vals>>)]

AppendScalar(tr, label, v) ==
    [st |-> AbsorbAll(tr.st, <<LabelCode(label), v>>),
     log |-> Append(tr.log, <<"append_scalar", label, v>>)]

\* UniPoly::append_to_transcript: every coefficient is absorbed.
AppendPolynomial(tr, label, poly) ==
    [st |-> AbsorbAll(tr.st, <<LabelCode(label)>> \o poly),
     log |-> Append(tr.log, <<"append_polynomial", label, poly>>)]

\* The loop appending (left, right) claim pairs: zip stops at the shorter one.
RECURSIVE AppendClaimsRightFirst(_, _, _)
AppendClaimsRightFirst(tr, left, right) ==
    IF left = <<>> \/ right = <<>> THEN tr
    ELSE AppendClaimsRightFirst(
            AppendScalar(AppendScalar(tr, "sumcheck right claim", right[1]),
                         "sumcheck left claim", left[1]),
            Tail(left), Tail(right))

RECURSIVE AppendClaims(_, _, _)
AppendClaims(tr, left, right) ==
    IF left = <<>> \/ right = <<>> THEN tr
    ELSE AppendClaims(
            AppendScalar(AppendScalar(tr, "sumcheck left claim", left[1]),
                         "sumcheck right claim", right[1]),
            Tail(left), Tail(right))

Min(a, b) == IF a <= b THEN a ELSE b

\* claims.iter().zip(coeffs.iter()).map(|(claim, coeff)| claim * coeff).sum()
JointClaim(cl, coeffs) ==
    FSum([i \in 1 .. Min(Len(cl), Len(coeffs)) |-> FMul(cl[i], coeffs[i])])

\* left.iter().zip(right.iter()).map(|(l, r)| l + r_layer * (r - l)).collect()
FoldClaimsSwapped(left, right, rLayer) ==
    [i \in 1 .. Min(Len(left), Len(right)) |->
        FAdd(right[i], FMul(rLayer, FSub(left[i], right[i])))]

FoldClaims(left, right, rLayer) ==
    [i \in 1 .. Min(Len(left), Len(right)) |->
        FAdd(left[i], FMul(rLayer, FSub(right[i], left[i])))]

(***************************************************************************)
(* BatchedDenseGrandProductLayer = Vec<Vec<F>>.                            *)
(***************************************************************************)
DenseNumRoundsLog(batch) == Log2(Len(batch[1]))

DenseNumRounds(batch) == Log2(Len(batch[1])) - 1

\* One tree of bind: the in-place loop over i in 0..n, ascending, the left
\* write before the right one.  written collects the positions assigned so
\* far and stale records whether a position was read after it was assigned
\* by an earlier iteration.
RECURSIVE DenseBindLoopDescending(_, _, _, _)
DenseBindLoopDescending(acc, r, i, n) ==
    IF i >= n THEN acc
    ELSE LET l0 == acc.layer
             q == n - 1 - i
             reads == {4 * q, 4 * q + 1, 4 * q + 2, 4 * q + 3}
             l1 == Put(l0, 2 * q,
                       FAdd(At(l0, 4 * q),
                            FMul(r, FSub(At(l0, 4 * q + 2), At(l0, 4 * q)))))
             l2 == Put(l1, 2 * q + 1,
                       FAdd(At(l1, 4 * q + 1),
                            FMul(r, FSub(At(l1, 4 * q + 3), At(l1, 4 * q + 1)))))
         IN  DenseBindLoopDescending(
                [layer |-> l2,
                 written |-> acc.written \cup {2 * q, 2 * q + 1},
                 stale |-> acc.stale \/ (reads \cap acc.written) # {}],
                r, i + 1, n)

RECURSIVE DenseBindLoop(_, _, _, _)
DenseBindLoop(acc, r, i, n) ==
    IF i >= n THEN acc
    ELSE LET l0 == acc.layer
             reads == {4 * i, 4 * i + 1, 4 * i + 2, 4 * i + 3}
             l1 == Put(l0, 2 * i,
                       FAdd(At(l0, 4 * i),
                            FMul(r, FSub(At(l0, 4 * i + 2), At(l0, 4 * i)))))
             l2 == Put(l1, 2 * i + 1,
                       FAdd(At(l1, 4 * i + 1),
                            FMul(r, FSub(At(l1, 4 * i + 3), At(l1, 4 * i + 1)))))
         IN  DenseBindLoop([layer |-> l2,
                            written |-> acc.written \cup {2 * i, 2 * i + 1},
                            stale |-> acc.stale
                                        \/ (reads \cap acc.written) # {}],
                           r, i + 1, n)

DenseBindRun(layer, r) ==
    DenseBindLoop([layer |-> layer, written |-> {}, stale |-> FALSE],
                  r, 0, Len(layer) \div 4)

\* One tree of bind without the truncation after the loop.
DenseBindLayerNoTruncate(layer, r) == DenseBindRun(layer, r).layer

\* layer.truncate(layer.len() / 2) after the loop.
DenseBindLayer(layer, r) ==
    Truncate(DenseBindRun(layer, r).layer, Len(layer) \div 2)

DenseBind(batch, r) == [b \in 1 .. Len(batch) |-> DenseBindLayer(batch[b], r)]

\* bind with the per-tree tasks of par_iter_mut running in the given order,
\* each on the batch as the tasks before it left it; k tasks are still to run.
RECURSIVE DenseBindInOrder(_, _, _, _)
DenseBindInOrder(batch, r, order, k) ==
    IF k = 0 THEN batch
    ELSE LET sofar == DenseBindInOrder(batch, r, order, k - 1)
         IN  [sofar EXCEPT ![order[k]] = DenseBindLayer(sofar[order[k]], r)]

\* The three eq evaluations at the points 0, 2, 3 of the next variable.
EqEvalTriple(eq, i) ==
    LET evalPoint0 == At(eq, 2 * i)
        mEq == FSub(At(eq, 2 * i + 1), At(eq, 2 * i))
        evalPoint2 == FAdd(At(eq, 2 * i + 1), mEq)
        evalPoint3 == FAdd(evalPoint2, mEq)
    IN  <<evalPoint0, evalPoint2, evalPoint3>>

TripleAdd(s, t) == <<FAdd(s[1], t[1]), FAdd(s[2], t[2]), FAdd(s[3], t[3])>>

TripleMul(s, t) == <<FMul(s[1], t[1]), FMul(s[2], t[2]), FMul(s[3], t[3])>>

RECURSIVE TripleSum(_)
TripleSum(ts) ==
    IF ts = <<>> THEN <<Zero, Zero, Zero>>
    ELSE TripleAdd(ts[1], TripleSum(Tail(ts)))

\* The products with the left line stepped from left1 by left1 at the point 3.
CubicTermPoint3Slip(left0, left1, right0, right1) ==
    LET mLeft == FSub(left1, left0)
        mRight == FSub(right1, right0)
        point2Left == FAdd(left1, mLeft)
        point3Left == FAdd(point2Left, left1)
        point2Right == FAdd(right1, mRight)
        point3Right == FAdd(point2Right, mRight)
    IN  <<FMul(left0, right0), FMul(point2Left, point2Right),
          FMul(point3Left, point3Right)>>

\* The products of the left and right line through (x0, x1) at 0, 2, 3.
CubicTerm(left0, left1, right0, right1) ==
    LET mLeft == FSub(left1, left0)
        mRight == FSub(right1, right0)
        point2Left == FAdd(left1, mLeft)
        point3Left == FAdd(point2Left, mLeft)
        point2Right == FAdd(right1, mRight)
        point3Right == FAdd(point2Right, mRight)
    IN  <<FMul(left0, right0), FMul(point2Left, point2Right),
          FMul(point3Left, point3Right)>>

\* The closure of compute_cubic for one i: the coefficient is multiplied into
\* the left pair, the per-tree terms are summed, then scaled by the eq triple.
DenseCubicAt(batch, coeffs, eq, i) ==
    TripleMul(
        TripleSum([b \in 1 .. Len(batch) |->
            CubicTerm(FMul(coeffs[b], At(batch[b], 4 * i)),
                      FMul(coeffs[b], At(batch[b], 4 * i + 2)),
                      At(batch[b], 4 * i + 1),
                      At(batch[b], 4 * i + 3))]),
        EqEvalTriple(eq, i))

DenseCubicEvals(batch, coeffs, eq) ==
    TripleSum([j \in 1 .. (Len(eq) \div 2) |->
                  DenseCubicAt(batch, coeffs, eq, j - 1)])

CubicFromSumsClaimAtOne(evals, previousRoundClaim) ==
    FromEvals(<<evals[1], previousRoundClaim, evals[2], evals[3]>>)

\* The orders in which n parallel tasks can complete.
Orders(n) ==
    {s \in [1 .. n -> 1 .. n] : \A i, j \in 1 .. n : i # j => s[i] # s[j]}

\* A reduce whose tasks overwrite the accumulator: the last one wins.
ReduceLastWins(ts, order, k) ==
    IF Len(order) = 0 THEN <<Zero, Zero, Zero>> ELSE ts[order[Len(order)]]

\* .reduce(|| zero, |sum, evals| sum + evals) with the partial results
\* arriving in the given order; k of them are still to be added.
RECURSIVE ReduceInOrder(_, _, _)
ReduceInOrder(ts, order, k) ==
    IF k = 0 THEN <<Zero, Zero, Zero>>
    ELSE TripleAdd(ReduceInOrder(ts, order, k - 1), ts[order[k]])

\* compute_cubic with the per-quartet tasks of into_par_iter completing in
\* the given order.
DenseCubicEvalsInOrder(batch, coeffs, eq, order) ==
    ReduceInOrder([j \in 1 .. (Len(eq) \div 2) |->
                      DenseCubicAt(batch, coeffs, eq, j - 1)],
                  order, Len(order))

\* evals = [evals.0, previous_round_claim - evals.0, evals.1, evals.2]
CubicFromSums(evals, previousRoundClaim) ==
    FromEvals(<<evals[1], FSub(previousRoundClaim, evals[1]),
                evals[2], evals[3]>>)

DenseComputeCubic(batch, coeffs, eq, previousRoundClaim) ==
    CubicFromSums(DenseCubicEvals(batch, coeffs, eq), previousRoundClaim)

\* final_claims: (layer[0], layer[1]) per tree; every tree must have length 2.
DenseFinalClaimsOk(batch) == \A b \in 1 .. Len(batch) : Len(batch[b]) = 2

DenseFinalClaims(batch) ==
    <<[b \in 1 .. Len(batch) |-> At(batch[b], 0)],
      [b \in 1 .. Len(batch) |-> At(batch[b], 1)]>>

(***************************************************************************)
(* DynamicDensityGrandProductLayer: Sparse(Vec<(usize, F)>) or             *)
(* Dense(Vec<F>), and BatchedSparseGrandProductLayer {layer_len, layers}.  *)
(***************************************************************************)
SparseLayer(entries) == [tag |-> "Sparse", sparse |-> entries, dense |-> <<>>]

DenseLayer(values) == [tag |-> "Dense", sparse |-> <<>>, dense |-> values]

\* DENSIFICATION_THRESHOLD = 0.8 as the fraction ThresholdNum / ThresholdDen.
ThresholdNum == 8

ThresholdDen == 10

\* (entries as f64 / len as f64) > DENSIFICATION_THRESHOLD
AtOrAboveThreshold(entries, len) == ThresholdDen * entries >= ThresholdNum * len

AboveThreshold(entries, len) == ThresholdDen * entries > ThresholdNum * len

SparseNumRoundsLog(batch) == Log2(batch.layer_len)

SparseNumRounds(batch) == Log2(batch.layer_len) - 1

\* sparse_layer.get(j).cloned().unwrap_or(default), j 0-based.
GetOr(sparse, j, default) == IF j < Len(sparse) THEN At(sparse, j) ELSE default

\* find_neighbor: the value of the first neighbor at query_index, else one.
FindNeighborFirstOnly(neighbors, queryIndex) ==
    IF neighbors[1][1] = queryIndex THEN neighbors[1][2] ELSE One

FindNeighbor(neighbors, queryIndex) ==
    LET hits == SelectSeq(neighbors, LAMBDA nb : nb[1] = queryIndex)
    IN  IF hits = <<>> THEN One ELSE hits[1][2]

\* one + r * (value - one) and value + r * (sibling - value)
FoldPairNoSubtract(low, high, r) == FAdd(low, FMul(r, high))

FoldPair(low, high, r) == FAdd(low, FMul(r, FSub(high, low)))

\* push_to_bound_layer.  In acc, out is bound_layer, clean is FALSE once a
\* dense slot that did not hold one was assigned (the debug assertion), and
\* inside is FALSE once a dense index was out of bounds.
PushToBoundLayer(acc, index, value) ==
    IF acc.out.tag = "Sparse"
    THEN [acc EXCEPT !.out.sparse = Append(@, <<index, value>>)]
    ELSE IF index >= Len(acc.out.dense)
    THEN [acc EXCEPT !.inside = FALSE]
    ELSE [acc EXCEPT !.out.dense = Put(@, index, value),
                     !.clean = @ /\ At(acc.out.dense, index) = One]

\* The loop body without the early left fold of the case index % 4 = 1.
SparseBindStepNoEarlyLeft(acc, sparse, j, r) ==
    LET index == At(sparse, j)[1]
        value == At(sparse, j)[2]
        neighbors == <<GetOr(sparse, j + 1, <<index + 1, One>>),
                       GetOr(sparse, j + 2, <<index + 2, One>>)>>
    IN  IF index % 2 = 0 /\ index < acc.nextLeft THEN acc
        ELSE IF index % 2 = 1 /\ index < acc.nextRight THEN acc
        ELSE CASE index % 4 = 0 ->
                    [PushToBoundLayer(acc, index \div 2,
                        FoldPair(value, FindNeighbor(neighbors, index + 2), r))
                     EXCEPT !.nextLeft = index + 4]
               [] index % 4 = 1 ->
                    LET leftNeighbor == FindNeighbor(neighbors, index + 1)
                        acc1 == acc
                    IN  [PushToBoundLayer(acc1, index \div 2 + 1,
                            FoldPair(value, FindNeighbor(neighbors, index + 2), r))
                         EXCEPT !.nextRight = index + 4]
               [] index % 4 = 2 ->
                    [PushToBoundLayer(acc, index \div 2 - 1,
                                      FoldPair(One, value, r))
                     EXCEPT !.nextLeft = index + 2]
               [] OTHER ->
                    [PushToBoundLayer(acc, index \div 2,
                                      FoldPair(One, value, r))
                     EXCEPT !.nextRight = index + 2]

\* The loop body without the two tests that skip a node already bound with
\* its sibling.
SparseBindStepNoSkip(acc, sparse, j, r) ==
    LET index == At(sparse, j)[1]
        value == At(sparse, j)[2]
        neighbors == <<GetOr(sparse, j + 1, <<index + 1, One>>),
                       GetOr(sparse, j + 2, <<index + 2, One>>)>>
    IN  IF FALSE THEN acc
        ELSE CASE index % 4 = 0 ->
                    [PushToBoundLayer(acc, index \div 2,
                        FoldPair(value, FindNeighbor(neighbors, index + 2), r))
                     EXCEPT !.nextLeft = index + 4]
               [] index % 4 = 1 ->
                    LET leftNeighbor == FindNeighbor(neighbors, index + 1)
                        acc1 == IF acc.nextLeft <= index + 1
                                THEN [(IF ~IsOne(leftNeighbor)
                                       THEN PushToBoundLayer(acc, index \div 2,
                                               FoldPair(One, leftNeighbor, r))
                                       ELSE acc)
                                      EXCEPT !.nextLeft = index + 3]
                                ELSE acc
                    IN  [PushToBoundLayer(acc1, index \div 2 + 1,
                            FoldPair(value, FindNeighbor(neighbors, index + 2), r))
                         EXCEPT !.nextRight = index + 4]
               [] index % 4 = 2 ->
                    [PushToBoundLayer(acc, index \div 2 - 1,
                                      FoldPair(One, value, r))
                     EXCEPT !.nextLeft = index + 2]
               [] OTHER ->
                    [PushToBoundLayer(acc, index \div 2,
                                      FoldPair(One, value, r))
                     EXCEPT !.nextRight = index + 2]

\* The body of bind's loop over a sparse tree for entry j (0-based).
SparseBindStep(acc, sparse, j, r) ==
    LET index == At(sparse, j)[1]
        value == At(sparse, j)[2]
        neighbors == <<GetOr(sparse, j + 1, <<index + 1, One>>),
                       GetOr(sparse, j + 2, <<index + 2, One>>)>>
    IN  IF index % 2 = 0 /\ index < acc.nextLeft THEN acc
        ELSE IF index % 2 = 1 /\ index < acc.nextRight THEN acc
        ELSE CASE index % 4 = 0 ->
                    [PushToBoundLayer(acc, index \div 2,
                        FoldPair(value, FindNeighbor(neighbors, index + 2), r))
                     EXCEPT !.nextLeft = index + 4]
               [] index % 4 = 1 ->
                    LET leftNeighbor == FindNeighbor(neighbors, index + 1)
                        acc1 == IF acc.nextLeft <= index + 1
                                THEN [(IF ~IsOne(leftNeighbor)
                                       THEN PushToBoundLayer(acc, index \div 2,
                                               FoldPair(One, leftNeighbor, r))
                                       ELSE acc)
                                      EXCEPT !.nextLeft = index + 3]
                                ELSE acc
                    IN  [PushToBoundLayer(acc1, index \div 2 + 1,
                            FoldPair(value, FindNeighbor(neighbors, index + 2), r))
                         EXCEPT !.nextRight = index + 4]
               [] index % 4 = 2 ->
                    [PushToBoundLayer(acc, index \div 2 - 1,
                                      FoldPair(One, value, r))
                     EXCEPT !.nextLeft = index + 2]
               [] OTHER ->
                    [PushToBoundLayer(acc, index \div 2,
                                      FoldPair(One, value, r))
                     EXCEPT !.nextRight = index + 2]

RECURSIVE SparseBindLoop(_, _, _, _)
SparseBindLoop(acc, sparse, j, r) ==
    IF j >= Len(sparse) THEN acc
    ELSE SparseBindLoop(SparseBindStep(acc, sparse, j, r), sparse, j + 1, r)

\* The Sparse arm with the dense bound_layer allocated filled with zero.
SparseBindRunZeroFilled(sparse, layerLen, r) ==
    SparseBindLoop(
        [out |-> IF AboveThreshold(Len(sparse), layerLen)
                 THEN DenseLayer([i \in 1 .. (layerLen \div 2) |-> Zero])
                 ELSE SparseLayer(<<>>),
         nextLeft |-> 0, nextRight |-> 0, clean |-> TRUE, inside |-> TRUE],
        sparse, 0, r)

\* The Sparse arm of bind for one tree: bound_layer is allocated dense when
\* the tree's ratio of entries exceeds the threshold, sparse otherwise.
SparseBindRun(sparse, layerLen, r) ==
    SparseBindLoop(
        [out |-> IF AboveThreshold(Len(sparse), layerLen)
                 THEN DenseLayer([i \in 1 .. (layerLen \div 2) |-> One])
                 ELSE SparseLayer(<<>>),
         nextLeft |-> 0, nextRight |-> 0, clean |-> TRUE, inside |-> TRUE],
        sparse, 0, r)

\* The Dense arm followed by a truncation of the vector to layer_len / 2.
DenseArmRunTruncating(dense, layerLen, r) ==
    LET run == DenseBindLoop([layer |-> dense, written |-> {}, stale |-> FALSE],
                             r, 0, layerLen \div 4)
    IN  [run EXCEPT !.layer = SubSeq(@, 1, layerLen \div 2)]

\* The Dense arm of bind for one tree: the in-place loop over layer_len / 4
\* quartets; the vector is not truncated.
DenseArmRun(dense, layerLen, r) ==
    DenseBindLoop([layer |-> dense, written |-> {}, stale |-> FALSE],
                  r, 0, layerLen \div 4)

BindTree(layer, layerLen, r) ==
    IF layer.tag = "Sparse" THEN SparseBindRun(layer.sparse, layerLen, r).out
    ELSE DenseLayer(DenseArmRun(layer.dense, layerLen, r).layer)

\* BatchedSparseGrandProductLayer::bind without the eq polynomial.
SparseBind(batch, r) ==
    [layer_len |-> batch.layer_len \div 2,
     layers |-> [b \in 1 .. Len(batch.layers) |->
                    BindTree(batch.layers[b], batch.layer_len, r)]]

\* The loop of compute_cubic over a sparse tree for entry j (0-based): acc
\* holds delta and next_index_to_process.
SparseDeltaStep(acc, sparse, j, eqEvals) ==
    LET index == At(sparse, j)[1]
        value == At(sparse, j)[2]
        neighbors == <<GetOr(sparse, j + 1, <<index + 1, One>>),
                       GetOr(sparse, j + 2, <<index + 2, One>>),
                       GetOr(sparse, j + 3, <<index + 3, One>>)>>
        corners ==
            CASE index % 4 = 0 ->
                    <<value, FindNeighbor(neighbors, index + 2),
                      FindNeighbor(neighbors, index + 1),
                      FindNeighbor(neighbors, index + 3), index + 4>>
              [] index % 4 = 1 ->
                    <<One, FindNeighbor(neighbors, index + 1),
                      value, FindNeighbor(neighbors, index + 2), index + 3>>
              [] index % 4 = 2 ->
                    <<One, value,
                      One, FindNeighbor(neighbors, index + 1), index + 2>>
              [] OTHER -> <<One, One, One, value, index + 1>>
        mLeft == FSub(corners[2], corners[1])
        mRight == FSub(corners[4], corners[3])
        point2Left == FAdd(corners[2], mLeft)
        point3Left == FAdd(point2Left, mLeft)
        point2Right == FAdd(corners[4], mRight)
        point3Right == FAdd(point2Right, mRight)
        eq3 == At(eqEvals, index \div 4)
    IN  IF index < acc.next THEN acc
        ELSE [delta |->
                 <<FAdd(acc.delta[1],
                        Mul0Optimized(eq3[1],
                            FSub(Mul1Optimized(corners[1], corners[3]), One))),
                   FAdd(acc.delta[2],
                        Mul0Optimized(eq3[2],
                            FSub(Mul1Optimized(point2Left, point2Right), One))),
                   FAdd(acc.delta[3],
                        Mul0Optimized(eq3[3],
                            FSub(Mul1Optimized(point3Left, point3Right), One)))>>,
              next |-> corners[5]]

RECURSIVE SparseDeltaLoop(_, _, _, _)
SparseDeltaLoop(acc, sparse, j, eqEvals) ==
    IF j >= Len(sparse) THEN acc
    ELSE SparseDeltaLoop(SparseDeltaStep(acc, sparse, j, eqEvals),
                         sparse, j + 1, eqEvals)

\* The Sparse arm of compute_cubic: coeff * (eq_eval_sums + delta).
SparseTreeEvalsDeltaOnly(sparse, coeff, eqEvals, eqEvalSums) ==
    LET delta == SparseDeltaLoop([delta |-> <<Zero, Zero, Zero>>, next |-> 0],
                                 sparse, 0, eqEvals).delta
    IN  <<FMul(coeff, delta[1]), FMul(coeff, delta[2]), FMul(coeff, delta[3])>>

SparseTreeEvals(sparse, coeff, eqEvals, eqEvalSums) ==
    LET delta == SparseDeltaLoop([delta |-> <<Zero, Zero, Zero>>, next |-> 0],
                                 sparse, 0, eqEvals).delta
    IN  <<FMul(coeff, FAdd(eqEvalSums[1], delta[1])),
          FMul(coeff, FAdd(eqEvalSums[2], delta[2])),
          FMul(coeff, FAdd(eqEvalSums[3], delta[3]))>>

\* The Dense arm of compute_cubic: eq_evals zipped with chunks_exact(4).
DenseTreeEvals(dense, coeff, eqEvals) ==
    LET sums == TripleSum(
            [i \in 1 .. Min(Len(eqEvals), Len(dense) \div 4) |->
                TripleMul(eqEvals[i],
                          CubicTerm(At(dense, 4 * (i - 1)),
                                    At(dense, 4 * (i - 1) + 2),
                                    At(dense, 4 * (i - 1) + 1),
                                    At(dense, 4 * (i - 1) + 3)))])
    IN  <<FMul(coeff, sums[1]), FMul(coeff, sums[2]), FMul(coeff, sums[3])>>

\* BatchedSparseGrandProductLayer::compute_cubic: one triple per coefficient.
SparseCubicEvals(batch, coeffs, eq) ==
    LET eqEvals == [i \in 1 .. (Len(eq) \div 2) |-> EqEvalTriple(eq, i - 1)]
        eqEvalSums == TripleSum(eqEvals)
    IN  TripleSum([b \in 1 .. Len(coeffs) |->
            IF batch.layers[b].tag = "Sparse"
            THEN SparseTreeEvals(batch.layers[b].sparse, coeffs[b],
                                 eqEvals, eqEvalSums)
            ELSE DenseTreeEvals(batch.layers[b].dense, coeffs[b], eqEvals)])

SparseComputeCubic(batch, coeffs, eq, previousRoundClaim) ==
    CubicFromSums(SparseCubicEvals(batch, coeffs, eq), previousRoundClaim)

\* The sparse encoding of a dense layer: the entries that are not one.
RECURSIVE ToSparseFrom(_, _)
ToSparseFrom(dense, i) ==
    IF i >= Len(dense) THEN <<>>
    ELSE (IF IsOne(At(dense, i)) THEN <<>> ELSE <<<<i, At(dense, i)>>>>)
            \o ToSparseFrom(dense, i + 1)

ToSparse(dense) == ToSparseFrom(dense, 0)

\* layer_output writing one node of the output layer: a slot of the Dense
\* output, or a push onto the Sparse output.
OutputWrite(out, index, value) ==
    IF out.tag = "Dense" THEN DenseLayer(Put(out.dense, index, value))
    ELSE SparseLayer(Append(out.sparse, <<index, value>>))

\* The loop writing a left node's value alone when its right node is there.
RECURSIVE LayerOutputLoopDropsRight(_, _, _)
LayerOutputLoopDropsRight(acc, sparse, j) ==
    IF j >= Len(sparse) THEN acc
    ELSE LET index == At(sparse, j)[1]
             value == At(sparse, j)[2]
         IN  IF index < acc.next
             THEN LayerOutputLoopDropsRight(acc, sparse, j + 1)
             ELSE LayerOutputLoopDropsRight(
                    [out |-> OutputWrite(acc.out, index \div 2, value),
                     next |-> IF index % 2 = 0 THEN index + 2 ELSE index + 1],
                    sparse, j + 1)

\* layer_output on a Sparse layer: the loop over the entries from the j-th
\* on; acc holds the output layer and next_index_to_process.
RECURSIVE LayerOutputLoop(_, _, _)
LayerOutputLoop(acc, sparse, j) ==
    IF j >= Len(sparse) THEN acc
    ELSE LET index == At(sparse, j)[1]
             value == At(sparse, j)[2]
             right == GetOr(sparse, j + 1, <<index + 1, One>>)
         IN  IF index < acc.next THEN LayerOutputLoop(acc, sparse, j + 1)
             ELSE IF index % 2 = 0
             THEN LayerOutputLoop(
                    [out |-> OutputWrite(acc.out, index \div 2,
                                IF right[1] = index + 1
                                THEN FMul(right[2], value) ELSE value),
                     next |-> index + 2],
                    sparse, j + 1)
             ELSE LayerOutputLoop(
                    [out |-> OutputWrite(acc.out, index \div 2, value),
                     next |-> index + 1],
                    sparse, j + 1)

\* A layer_output that never leaves the Sparse representation.
LayerOutputSparseOnly(layer, outputLen) ==
    SparseLayer(
        LayerOutputLoop([out |-> SparseLayer(<<>>), next |-> 0],
                        IF layer.tag = "Sparse" THEN layer.sparse
                        ELSE ToSparse(SubSeq(layer.dense, 1, 2 * outputLen)),
                        0).out.sparse)

\* DynamicDensityGrandProductLayer::layer_output.
LayerOutput(layer, outputLen) ==
    IF layer.tag = "Sparse"
    THEN LayerOutputLoop(
            [out |-> IF AboveThreshold(Len(layer.sparse), outputLen * 2)
                     THEN DenseLayer([i \in 1 .. outputLen |-> One])
                     ELSE SparseLayer(<<>>),
             next |-> 0],
            layer.sparse, 0).out
    ELSE DenseLayer([i \in 1 .. outputLen |->
                        FMul(At(layer.dense, 2 * (i - 1)),
                             At(layer.dense, 2 * (i - 1) + 1))])

\* A final_claims that takes a single entry for the left claim whatever its
\* index.
TreeFinalClaimsLeftOnly(layer) ==
    IF layer.tag = "Dense" THEN <<At(layer.dense, 0), At(layer.dense, 1)>>
    ELSE IF Len(layer.sparse) = 0 THEN <<One, One>>
    ELSE IF Len(layer.sparse) = 1 THEN <<layer.sparse[1][2], One>>
    ELSE <<layer.sparse[1][2], layer.sparse[2][2]>>

\* A final_claims that reads an absent entry as zero.
TreeFinalClaimsAbsentIsZero(layer) ==
    IF layer.tag = "Dense" THEN <<At(layer.dense, 0), At(layer.dense, 1)>>
    ELSE IF Len(layer.sparse) = 0 THEN <<Zero, Zero>>
    ELSE IF Len(layer.sparse) = 1
         THEN (IF layer.sparse[1][1] = 0
               THEN <<layer.sparse[1][2], Zero>>
               ELSE <<Zero, layer.sparse[1][2]>>)
    ELSE <<layer.sparse[1][2], layer.sparse[2][2]>>

\* final_claims for one tree: a Sparse tree of 0, 1 or 2 entries, or a
\* Dense tree.
TreeFinalClaims(layer) ==
    IF layer.tag = "Dense" THEN <<At(layer.dense, 0), At(layer.dense, 1)>>
    ELSE IF Len(layer.sparse) = 0 THEN <<One, One>>
    ELSE IF Len(layer.sparse) = 1
         THEN (IF layer.sparse[1][1] = 0
               THEN <<layer.sparse[1][2], One>>
               ELSE <<One, layer.sparse[1][2]>>)
    ELSE <<layer.sparse[1][2], layer.sparse[2][2]>>

\* assert_eq!(self.layer_len, 2) and panic!("Sparse layer length > 2").
SparseFinalClaimsOk(batch) ==
    /\ batch.layer_len = 2
    /\ \A b \in 1 .. Len(batch.layers) :
          batch.layers[b].tag = "Sparse" => Len(batch.layers[b].sparse) <= 2

\* BatchedSparseGrandProductLayer::final_claims: the unzipped pairs, or an
\* abort.
SparseFinalClaims(batch) ==
    IF SparseFinalClaimsOk(batch)
    THEN [ok |-> TRUE,
          left |-> [b \in 1 .. Len(batch.layers) |->
                       TreeFinalClaims(batch.layers[b])[1]],
          right |-> [b \in 1 .. Len(batch.layers) |->
                       TreeFinalClaims(batch.layers[b])[2]]]
    ELSE [ok |-> FALSE, left |-> <<>>, right |-> <<>>]

(***************************************************************************)
(* BatchedDenseGrandProduct: the stack of layers, leaves first.            *)
(***************************************************************************)
\* A layer that pairs position i with position i + len instead of the
\* adjacent pair.
ProductLayerHalves(batch) ==
    [b \in 1 .. Len(batch) |->
        [i \in 1 .. (Len(batch[1]) \div 2) |->
            FMul(batch[b][i], batch[b][i + Len(batch[1]) \div 2])]]

ProductLayer(batch) ==
    [b \in 1 .. Len(batch) |->
        [i \in 1 .. (Len(batch[1]) \div 2) |->
            FMul(batch[b][2 * i - 1], batch[b][2 * i])]]

RECURSIVE ConstructFrom(_, _)
ConstructFrom(stack, more) ==
    IF more = 0 THEN stack
    ELSE ConstructFrom(Append(stack, ProductLayer(stack[Len(stack)])), more - 1)

Construct(lv) == ConstructFrom(<<lv>>, Log2(Len(lv[1])) - 1)

NumLayers(stack) == Len(stack)

Claims(stack) ==
    LET lastLayers == stack[NumLayers(stack)]
    IN  [b \in 1 .. Len(lastLayers) |->
            FMul(At(lastLayers[b], 0), At(lastLayers[b], 1))]

(***************************************************************************)
(* Inputs.  The bounds of the model: trees have 2^n leaves, 1 <= n <=      *)
(* MaxVars, a batch has 1 .. MaxBatch trees, and the leaves and the        *)
(* transcript label are drawn from the seeds 0 .. MaxSeed.                 *)
(***************************************************************************)
MaxVars == 3

MaxBatch == 2

MaxSeed == 3

\* The all-ones batches have up to 2^MaxOnesVars values per tree.
MaxOnesVars == 4

\* The stream of pseudo-random field elements of a seed (test_rng).
Rng(seed, j) ==
    LET x == (seed * 389 + j * 75 + 17) % TMod
    IN  (((x * x) % TMod) * x + 74 * x + j) % TMod

RandomLeaves(seed, B, L) ==
    [b \in 1 .. B |-> [i \in 1 .. L |-> Rng(seed, (b - 1) * L + i) % P]]

VARIABLES
    leaves,     \* the leaf vectors handed to construct
    tlabel,     \* the label both transcripts are initialised with
    layers,     \* BatchedDenseGrandProduct.layers, leaves first
    claims,     \* claims() as read before proving
    p_pc,       \* the prover's position
    p_k,        \* layers proved so far (0 is the root layer)
    p_claims,   \* prove_grand_product: claims_to_verify
    p_r,        \* prove_grand_product: r_grand_product
    p_coeffs,   \* prove_layer: coeffs
    p_eq,       \* prove_layer: eq_poly
    p_rounds,   \* prove_sumcheck: num_rounds(), the end of the loop's range
    p_prev,     \* prove_sumcheck: previous_claim
    p_rsc,      \* prove_sumcheck: r
    p_cubics,   \* prove_sumcheck: cubic_polys
    p_final,    \* prove_layer: (left_claims, right_claims)
    p_proof,    \* prove_grand_product: proof_layers
    p_tr,       \* the prover's transcript
    v_pc,       \* the verifier's position
    v_proof,    \* verify_grand_product: proof.layers
    v_in,       \* verify_grand_product: claims
    v_k,        \* verify_grand_product: layer_index
    v_claims,   \* verify_grand_product: claims_to_verify
    v_r,        \* verify_grand_product: r_grand_product
    v_coeffs,   \* verify_grand_product: coeffs
    v_e,        \* SumcheckInstanceProof::verify: e
    v_rsc,      \* SumcheckInstanceProof::verify: r
    v_eqeval,   \* verify_grand_product: eq_eval
    v_tr,       \* the verifier's transcript
    v_why,      \* the check that rejected, "" while none has
    h_pc,       \* the layer harness: "off", or "ready" between operations
    h_dense,    \* a BatchedDenseGrandProductLayer and its eq polynomial
    h_sparse,   \* the same layers as a batch of Sparse trees, and its eq
    h_alldense, \* the same layers as a batch of Dense trees, and its eq
    h_pre,      \* the three batches before the last bind, and its r
    h_cubic,    \* the inputs and results of the last compute_cubic
    h_loop,     \* prove_sumcheck's loop: its range and the rounds done
    h_final,    \* what the end of prove_sumcheck found and returned
    t_pc,       \* one operation on one batch: "off", "input" or "done"
    t_in,       \* the batch the operation is applied to
    t_out       \* the operation, its challenge and what it returned

proverVars == <<layers, claims, p_pc, p_k, p_claims, p_r, p_coeffs, p_eq,
                p_rounds, p_prev, p_rsc, p_cubics, p_final, p_proof, p_tr>>

verifierVars == <<v_pc, v_proof, v_in, v_k, v_claims, v_r, v_coeffs, v_e,
                  v_rsc, v_eqeval, v_tr, v_why>>

harnessVars == <<h_pc, h_dense, h_sparse, h_alldense, h_pre, h_cubic, h_loop,
                 h_final>>

treeVars == <<t_pc, t_in, t_out>>

vars == <<leaves, tlabel, proverVars, verifierVars, harnessVars, treeVars>>

TreeOff ==
    /\ t_pc = "off"
    /\ t_in = <<>>
    /\ t_out = <<>>

HarnessOff ==
    /\ h_pc = "off"
    /\ h_dense = <<>>
    /\ h_sparse = <<>>
    /\ h_alldense = <<>>
    /\ h_pre = <<>>
    /\ h_cubic = <<>>
    /\ h_loop = <<>>
    /\ h_final = <<>>

VerifierIdle ==
    /\ v_pc = "idle"
    /\ v_proof = <<>>
    /\ v_in = <<>>
    /\ v_k = 0
    /\ v_claims = <<>>
    /\ v_r = <<>>
    /\ v_coeffs = <<>>
    /\ v_e = Zero
    /\ v_rsc = <<>>
    /\ v_eqeval = One
    /\ v_tr = NewTranscript(0)
    /\ v_why = ""

ProverIdle ==
    /\ layers = <<>>
    /\ claims = <<>>
    /\ p_pc = "construct"
    /\ p_k = 0
    /\ p_claims = <<>>
    /\ p_r = <<>>
    /\ p_coeffs = <<>>
    /\ p_eq = <<>>
    /\ p_rounds = 0
    /\ p_prev = Zero
    /\ p_rsc = <<>>
    /\ p_cubics = <<>>
    /\ p_final = <<<<>>, <<>>>>
    /\ p_proof = <<>>
    /\ p_tr = NewTranscript(0)

Init ==
    /\ \E n \in 1 .. MaxVars, B \in 1 .. MaxBatch, seed \in 0 .. MaxSeed :
          /\ leaves = RandomLeaves(seed, B, Pow2(n))
          /\ tlabel = Rng(seed, 0)
    /\ ProverIdle
    /\ VerifierIdle
    /\ HarnessOff
    /\ TreeOff

(***************************************************************************)
(* The prover.                                                             *)
(***************************************************************************)
\* The layer prove_grand_product is at: layers() iterates the stack reversed.
CurrentLayer == layers[NumLayers(layers) - p_k]

\* BatchedDenseGrandProduct::construct, then claims() and a fresh transcript.
DoConstruct ==
    /\ p_pc = "construct"
    /\ layers' = Construct(leaves)
    /\ claims' = Claims(layers')
    /\ p_tr' = NewTranscript(tlabel)
    /\ p_pc' = "start"
    /\ UNCHANGED <<treeVars, harnessVars, leaves, tlabel, p_k, p_claims, p_r, p_coeffs, p_eq, p_rounds, p_prev,
                   p_rsc, p_cubics, p_final, p_proof, verifierVars>>

\* prove_grand_product up to its loop.
ProveStart ==
    /\ p_pc = "start"
    /\ p_proof' = <<>>
    /\ p_claims' = Claims(layers)
    /\ p_r' = <<>>
    /\ p_k' = 0
    /\ p_pc' = "coeffs"
    /\ UNCHANGED <<treeVars, harnessVars, leaves, tlabel, layers, claims, p_coeffs, p_eq, p_rounds, p_prev,
                   p_rsc, p_cubics, p_final, p_tr, verifierVars>>

\* prove_layer up to the sum-check loop: coeffs, the joint claim, eq_poly.
ProveCoeffs ==
    /\ p_pc = "coeffs"
    /\ p_k < NumLayers(layers)
    /\ LET tr == ChallengeVector(p_tr, "rand_coeffs_next_layer", Len(p_claims))
           coeffs == tr.log[Len(tr.log)][3]
       IN  /\ p_tr' = tr
           /\ p_coeffs' = coeffs
           /\ p_prev' = JointClaim(p_claims, coeffs)
    /\ p_eq' = EqEvals(p_r)
    /\ p_rounds' = DenseNumRounds(CurrentLayer)
    /\ p_rsc' = <<>>
    /\ p_cubics' = <<>>
    /\ p_pc' = "round"
    /\ UNCHANGED <<treeVars, harnessVars, leaves, tlabel, layers, claims, p_k, p_claims, p_r,
                   p_final, p_proof, verifierVars>>

\* r_sumcheck.into_par_iter().rev().collect_into_vec(r_grand_product)
ProverPointKeepsOrder(rSumcheck) == rSumcheck

ProverPoint(rSumcheck) == Reverse(rSumcheck)

\* cubic_polys.push(cubic_poly.compress())
PushCubicForgotten(cubics, cubicPoly) == cubics

PushCubic(cubics, cubicPoly) == Append(cubics, Compress(cubicPoly))

\* One iteration of prove_sumcheck's loop.
ProveRound ==
    /\ p_pc = "round"
    /\ Len(p_rsc) < p_rounds
    /\ \E cubicOrder \in Orders(Len(p_eq) \div 2),
          bindOrder \in Orders(Len(CurrentLayer)) :
       LET cubicPoly == CubicFromSums(
                            DenseCubicEvalsInOrder(CurrentLayer, p_coeffs,
                                                   p_eq, cubicOrder),
                            p_prev)
           tr == ChallengeScalar(AppendPolynomial(p_tr, "poly", cubicPoly),
                                 "challenge_nextround")
           rj == LastChallenge(tr)
       IN  /\ p_tr' = tr
           /\ p_rsc' = Append(p_rsc, rj)
           /\ layers' = [layers EXCEPT ![NumLayers(layers) - p_k] =
                            DenseBindInOrder(CurrentLayer, rj, bindOrder,
                                             Len(bindOrder))]
           /\ p_eq' = BoundPolyVarBot(p_eq, rj)
           /\ p_prev' = Evaluate(cubicPoly, rj)
           /\ p_cubics' = PushCubic(p_cubics, cubicPoly)
    /\ UNCHANGED <<treeVars, harnessVars, leaves, tlabel, claims, p_pc, p_k, p_claims, p_r, p_coeffs,
                   p_rounds, p_final, p_proof, verifierVars>>

\* The end of prove_sumcheck (final_claims) and prove_layer up to r_layer:
\* the claims are absorbed and r_grand_product becomes the reversed r.
ProveFinalClaims ==
    /\ p_pc = "round"
    /\ Len(p_rsc) = p_rounds
    /\ Len(p_eq) = 1
    /\ DenseFinalClaimsOk(CurrentLayer)
    /\ p_final' = DenseFinalClaims(CurrentLayer)
    /\ p_tr' = AppendClaims(p_tr, p_final'[1], p_final'[2])
    /\ p_r' = ProverPoint(p_rsc)
    /\ p_pc' = "fold"
    /\ UNCHANGED <<treeVars, harnessVars, leaves, tlabel, layers, claims, p_k, p_claims, p_coeffs,
                   p_eq, p_rounds, p_prev, p_rsc, p_cubics, p_proof, verifierVars>>

LayerProof(cubics, left, right) ==
    [proof |-> cubics, left_claims |-> left, right_claims |-> right]

\* The rest of prove_layer: r_layer, the folded claims, the layer's record.
ProveFold ==
    /\ p_pc = "fold"
    /\ LET tr == ChallengeScalar(p_tr, "challenge_r_layer")
           rLayer == LastChallenge(tr)
       IN  /\ p_tr' = tr
           /\ p_claims' = FoldClaims(p_final[1], p_final[2], rLayer)
           /\ p_r' = Append(p_r, rLayer)
    /\ p_proof' = Append(p_proof, LayerProof(p_cubics, p_final[1], p_final[2]))
    /\ p_k' = p_k + 1
    /\ p_pc' = "coeffs"
    /\ UNCHANGED <<treeVars, harnessVars, leaves, tlabel, layers, claims, p_coeffs, p_eq, p_rounds, p_prev,
                   p_rsc, p_cubics, p_final, verifierVars>>

\* prove_grand_product returns (proof, r_grand_product).
ProveReturn ==
    /\ p_pc = "coeffs"
    /\ p_k = NumLayers(layers)
    /\ p_pc' = "done"
    /\ UNCHANGED <<treeVars, harnessVars, leaves, tlabel, layers, claims, p_k, p_claims, p_r,
                   p_coeffs, p_eq, p_rounds, p_prev, p_rsc, p_cubics, p_final, p_proof,
                   p_tr, verifierVars>>

ProverNext ==
    \/ DoConstruct
    \/ ProveStart
    \/ ProveCoeffs
    \/ ProveRound
    \/ ProveFinalClaims
    \/ ProveFold
    \/ ProveReturn

(***************************************************************************)
(* What the verifier is handed: the prover's proof and claims, or a copy   *)
(* with one change made by an adversary.                                   *)
(***************************************************************************)
Bump(s, i) == [s EXCEPT ![i] = FAdd(s[i], One)]

DropLast(s) == SubSeq(s, 1, Len(s) - 1)

DropAt(s, i) == SubSeq(s, 1, i - 1) \o SubSeq(s, i + 1, Len(s))

\* One layer record with one value changed or one vector resized.
TamperedRecords(rec) ==
    {[rec EXCEPT !.left_claims = Bump(@, b)] : b \in 1 .. Len(rec.left_claims)}
    \cup {[rec EXCEPT !.right_claims = Bump(@, b)] :
            b \in 1 .. Len(rec.right_claims)}
    \cup {[rec EXCEPT !.proof[j] = Bump(@, c)] :
            j \in 1 .. Len(rec.proof), c \in 1 .. 3}
    \cup {[rec EXCEPT !.proof[j] = DropLast(@)] : j \in 1 .. Len(rec.proof)}
    \cup {[rec EXCEPT !.proof = DropAt(@, j)] : j \in 1 .. Len(rec.proof)}
    \cup {[rec EXCEPT !.proof = Append(@, <<Zero, Zero, Zero>>)],
          [rec EXCEPT !.left_claims = DropLast(@)],
          [rec EXCEPT !.right_claims = DropLast(@)],
          [rec EXCEPT !.left_claims = Append(@, Zero)],
          [rec EXCEPT !.right_claims = Append(@, Zero)],
          [rec EXCEPT !.left_claims = Append(@, Zero),
                      !.right_claims = Append(@, Zero)]}

Submissions(proof, cl) ==
    {[proof |-> proof, claims |-> cl]}
    \cup UNION {{[proof |-> [proof EXCEPT ![k] = rec], claims |-> cl] :
                    rec \in TamperedRecords(proof[k])} : k \in 1 .. Len(proof)}
    \cup {[proof |-> SubSeq(proof, 1, m), claims |-> cl] :
            m \in 0 .. (Len(proof) - 1)}
    \cup {[proof |-> Append(proof, proof[Len(proof)]), claims |-> cl]}
    \cup {[proof |-> proof, claims |-> Bump(cl, b)] : b \in 1 .. Len(cl)}
    \cup {[proof |-> proof, claims |-> Append(cl, Zero)],
          [proof |-> proof, claims |-> DropLast(cl)]}

(***************************************************************************)
(* The verifier.                                                           *)
(***************************************************************************)
\* verify_grand_product is entered with a proof, claims and a transcript
\* initialised like the prover's.
Submit ==
    /\ p_pc = "done"
    /\ v_pc = "idle"
    /\ \E sub \in Submissions(p_proof, claims) :
          /\ v_proof' = sub.proof
          /\ v_in' = sub.claims
          /\ v_claims' = sub.claims
    /\ v_r' = <<>>
    /\ v_k' = 0
    /\ v_tr' = NewTranscript(tlabel)
    /\ v_pc' = "coeffs"
    /\ UNCHANGED <<treeVars, harnessVars, leaves, tlabel, proverVars, v_coeffs, v_e, v_rsc, v_eqeval,
                   v_why>>

LayerRecord == v_proof[v_k + 1]

Reject(why) ==
    /\ v_pc' = "rejected"
    /\ v_why' = why

\* The loop head of verify_grand_product: coeffs and the joint claim, then
\* the entry of SumcheckInstanceProof::verify, which wants one polynomial
\* per round.
VerifyCoeffs ==
    /\ v_pc = "coeffs"
    /\ v_k < Len(v_proof)
    /\ LET tr == ChallengeVector(v_tr, "rand_coeffs_next_layer", Len(v_claims))
           coeffs == tr.log[Len(tr.log)][3]
       IN  /\ v_tr' = tr
           /\ v_coeffs' = coeffs
           /\ v_e' = JointClaim(v_claims, coeffs)
    /\ v_rsc' = <<>>
    /\ IF Len(LayerRecord.proof) = v_k
       THEN v_pc' = "sumcheck" /\ v_why' = v_why
       ELSE Reject("sumcheck rounds")
    /\ UNCHANGED <<treeVars, harnessVars, leaves, tlabel, proverVars, v_proof, v_in, v_k, v_claims,
                   v_r, v_eqeval>>

\* One round of SumcheckInstanceProof::verify with degree bound 3.
VerifyRound ==
    /\ v_pc = "sumcheck"
    /\ Len(v_rsc) < v_k
    /\ LET poly == Decompress(LayerRecord.proof[Len(v_rsc) + 1], v_e)
           tr == ChallengeScalar(AppendPolynomial(v_tr, "poly", poly),
                                 "challenge_nextround")
           ri == LastChallenge(tr)
       IN  IF Degree(poly) # 3
           THEN Reject("sumcheck degree")
                /\ UNCHANGED <<v_tr, v_rsc, v_e>>
           ELSE IF FAdd(Evaluate(poly, Zero), Evaluate(poly, One)) # v_e
           THEN Reject("sumcheck sum")
                /\ UNCHANGED <<v_tr, v_rsc, v_e>>
           ELSE /\ v_tr' = tr
                /\ v_rsc' = Append(v_rsc, ri)
                /\ v_e' = Evaluate(poly, ri)
                /\ UNCHANGED <<v_pc, v_why>>
    /\ UNCHANGED <<treeVars, harnessVars, leaves, tlabel, proverVars, v_proof, v_in, v_k, v_claims,
                   v_r, v_coeffs, v_eqeval>>

\* assert_eq!(claims.len(), left_claims.len()) and the same for right_claims.
ClaimLengthsLeftOnly(rec, cl) == Len(cl) = Len(rec.left_claims)

ClaimLengthsUnchecked(rec, cl) == TRUE

ClaimLengthsOk(rec, cl) ==
    /\ Len(cl) = Len(rec.left_claims)
    /\ Len(cl) = Len(rec.right_claims)

\* r_grand_product = r_sumcheck.into_iter().rev().collect()
VerifierPointKeepsOrder(rSumcheck) == rSumcheck

VerifierPoint(rSumcheck) == Reverse(rSumcheck)

\* After the sum-check: both claim vectors must be as long as the input
\* claims; then every (left, right) pair is absorbed.
VerifyClaims ==
    /\ v_pc = "sumcheck"
    /\ Len(v_rsc) = v_k
    /\ IF ~ClaimLengthsOk(LayerRecord, v_in)
       THEN Reject("claims length") /\ v_tr' = v_tr
       ELSE /\ v_tr' = AppendClaims(v_tr, LayerRecord.left_claims,
                                    LayerRecord.right_claims)
            /\ v_pc' = "check"
            /\ v_why' = v_why
    /\ UNCHANGED <<treeVars, harnessVars, leaves, tlabel, proverVars, v_proof, v_in, v_k, v_claims,
                   v_r, v_coeffs, v_e, v_rsc, v_eqeval>>

\* eq(r_grand_product; reversed r_sumcheck), factor by factor.
EqEval(rGrandProduct, rSumcheck) ==
    FProduct([j \in 1 .. Len(rGrandProduct) |->
        LET rGp == rGrandProduct[j]
            rSc == Reverse(rSumcheck)[j]
        IN  FAdd(FMul(rGp, rSc), FMul(FSub(One, rGp), FSub(One, rSc)))])

\* verify_sumcheck_claim: expected_sumcheck_claim.
ExpectedWithoutEq(rec, coeffs, eqEval, len) ==
    FSum([i \in 1 .. len |->
        FMul(FMul(coeffs[i], rec.left_claims[i]), rec.right_claims[i])])

ExpectedSumcheckClaim(rec, coeffs, eqEval, len) ==
    FSum([i \in 1 .. len |->
        FMul(FMul(FMul(coeffs[i], rec.left_claims[i]), rec.right_claims[i]),
             eqEval)])

\* eq_eval, the new r_grand_product, and the first half of
\* verify_sumcheck_claim: the expected claim against the sum-check's.
VerifyCheck ==
    /\ v_pc = "check"
    /\ IF Len(v_r) # Len(v_rsc)
       THEN Reject("point length") /\ UNCHANGED <<v_r, v_eqeval>>
       ELSE /\ v_eqeval' = EqEval(v_r, v_rsc)
            /\ v_r' = VerifierPoint(v_rsc)
            /\ IF \/ Len(v_claims) > Len(v_coeffs)
                  \/ Len(v_claims) > Len(LayerRecord.left_claims)
                  \/ Len(v_claims) > Len(LayerRecord.right_claims)
               THEN Reject("index")
               ELSE IF ExpectedSumcheckClaim(LayerRecord, v_coeffs, v_eqeval',
                                             Len(v_claims)) # v_e
               THEN Reject("claim mismatch")
               ELSE v_pc' = "fold" /\ v_why' = v_why
    /\ UNCHANGED <<treeVars, harnessVars, leaves, tlabel, proverVars, v_proof, v_in, v_k, v_claims,
                   v_coeffs, v_e, v_rsc, v_tr>>

\* The second half of verify_sumcheck_claim: r_layer and the folded claims.
VerifyFold ==
    /\ v_pc = "fold"
    /\ LET tr == ChallengeScalar(v_tr, "challenge_r_layer")
           rLayer == LastChallenge(tr)
       IN  /\ v_tr' = tr
           /\ v_claims' = FoldClaims(LayerRecord.left_claims,
                                     LayerRecord.right_claims, rLayer)
           /\ v_r' = Append(v_r, rLayer)
    /\ v_k' = v_k + 1
    /\ v_pc' = "coeffs"
    /\ UNCHANGED <<treeVars, harnessVars, leaves, tlabel, proverVars, v_proof, v_in, v_coeffs, v_e,
                   v_rsc, v_eqeval, v_why>>

\* A return that has drawn the next layer's coeffs before finding that no
\* layer record is left.
VerifyReturnDrawsCoeffs ==
    /\ v_pc = "coeffs"
    /\ v_k = Len(v_proof)
    /\ v_pc' = "done"
    /\ v_tr' = ChallengeVector(v_tr, "rand_coeffs_next_layer", Len(v_claims))
    /\ UNCHANGED <<treeVars, harnessVars, leaves, tlabel, proverVars, v_proof, v_in, v_k, v_claims,
                   v_r, v_coeffs, v_e, v_rsc, v_eqeval, v_why>>

\* verify_grand_product returns (claims_to_verify, r_grand_product).
VerifyReturn ==
    /\ v_pc = "coeffs"
    /\ v_k = Len(v_proof)
    /\ v_pc' = "done"
    /\ UNCHANGED <<treeVars, harnessVars, leaves, tlabel, proverVars, v_proof, v_in, v_k, v_claims,
                   v_r, v_coeffs, v_e, v_rsc, v_eqeval, v_tr, v_why>>

VerifierNext ==
    \/ Submit
    \/ VerifyCoeffs
    \/ VerifyRound
    \/ VerifyClaims
    \/ VerifyCheck
    \/ VerifyFold
    \/ VerifyReturn

(***************************************************************************)
(* The layer harness: one batch of layers held as a                        *)
(* BatchedDenseGrandProductLayer, as a BatchedSparseGrandProductLayer of   *)
(* Sparse trees and as one of Dense trees, each with its own copy of the   *)
(* eq polynomial, taken through bind and compute_cubic side by side.       *)
(***************************************************************************)
\* Of four leaves, how many are drawn at random rather than set to one; a
\* batch of density 0 is all ones, and is tried with longer layers and a
\* constant eq polynomial.
Densities == {1, 3, 4}

\* Leaves that are one except where the stream says otherwise; the trees of
\* a batch alternate between the density and its complement.
MostlyOneLeaves(seed, density, B, L) ==
    [b \in 1 .. B |-> [i \in 1 .. L |->
        IF Rng(seed, 2 * ((b - 1) * L + i)) % 4
              < (IF density = 0 THEN 0
                 ELSE IF b % 2 = 1 THEN density ELSE 5 - density)
        THEN Rng(seed, 2 * ((b - 1) * L + i) + 1) % P
        ELSE One]]

RandomVector(seed, len) == [i \in 1 .. len |-> Rng(seed + 1, 5 * i) % P]

\* The densified view of one tree: a vector of ones with the entries written
\* in order for a Sparse tree, the first layer_len values of a Dense one.
RECURSIVE WriteEntries(_, _)
WriteEntries(densified, entries) ==
    IF entries = <<>> THEN densified
    ELSE WriteEntries(Put(densified, entries[1][1], entries[1][2]),
                      Tail(entries))

CondenseTree(layer, layerLen) ==
    IF layer.tag = "Sparse"
    THEN WriteEntries([i \in 1 .. layerLen |-> One], layer.sparse)
    ELSE SubSeq(layer.dense, 1, layerLen)

Condense(batch) ==
    [b \in 1 .. Len(batch.layers) |->
        CondenseTree(batch.layers[b], batch.layer_len)]

HInit ==
    /\ \E n \in 1 .. MaxOnesVars, B \in 1 .. MaxBatch, seed \in 0 .. MaxSeed,
          density \in Densities \cup {0} :
          LET lv == MostlyOneLeaves(seed, density, B, Pow2(n))
              eq == IF density = 0 THEN [i \in 1 .. Pow2(n - 1) |-> One]
                    ELSE RandomVector(seed, Pow2(n - 1))
          IN  /\ density = 0 => seed = 0
              /\ density # 0 => n <= MaxVars
              /\ h_dense = [layers |-> lv, eq |-> eq]
              /\ h_loop = [rounds |-> SparseNumRounds([layer_len |-> Pow2(n)]),
                           round |-> 0,
                           len0 |-> Pow2(n)]
              /\ h_sparse = [layer_len |-> Pow2(n),
                             layers |-> [b \in 1 .. B |->
                                            SparseLayer(ToSparse(lv[b]))],
                             eq |-> eq]
              /\ h_alldense = [layer_len |-> Pow2(n),
                               layers |-> [b \in 1 .. B |-> DenseLayer(lv[b])],
                               eq |-> eq]
    /\ h_pc = "ready"
    /\ h_pre = <<>>
    /\ h_cubic = <<>>
    /\ h_final = <<>>
    /\ leaves = <<>>
    /\ tlabel = 0
    /\ ProverIdle
    /\ VerifierIdle
    /\ TreeOff

\* bind on the three batches with the same r: the layers and the eq
\* polynomial are bound by the two closures of rayon::join, then layer_len
\* is halved.
HBind ==
    /\ h_pc = "ready"
    /\ h_cubic = <<>>
    /\ h_loop.round < h_loop.rounds
    /\ h_loop' = [h_loop EXCEPT !.round = @ + 1]
    /\ \E r \in F :
          /\ h_dense' = [layers |-> DenseBind(h_dense.layers, r),
                         eq |-> BoundPolyVarBot(h_dense.eq, r)]
          /\ h_sparse' = [layer_len |-> SparseBind(h_sparse, r).layer_len,
                          layers |-> SparseBind(h_sparse, r).layers,
                          eq |-> BoundPolyVarBot(h_sparse.eq, r)]
          /\ h_alldense' = [layer_len |-> SparseBind(h_alldense, r).layer_len,
                            layers |-> SparseBind(h_alldense, r).layers,
                            eq |-> BoundPolyVarBot(h_alldense.eq, r)]
          /\ h_pre' = [dense |-> h_dense, sparse |-> h_sparse,
                       alldense |-> h_alldense, r |-> r]
    /\ UNCHANGED <<h_pc, h_cubic, h_final, leaves, tlabel, proverVars,
                   verifierVars, treeVars>>

\* compute_cubic on the three batches with the same coefficients and claim.
HComputeCubic ==
    /\ h_pc = "ready"
    /\ h_cubic = <<>>
    /\ h_sparse.layer_len >= 4
    /\ \E cseed \in 0 .. MaxSeed :
          LET coeffs == RandomVector(cseed + 2, Len(h_dense.layers))
              claim == Rng(cseed, 3) % P
          IN  h_cubic' =
                [coeffs |-> coeffs, claim |-> claim,
                 dense |-> DenseComputeCubic(h_dense.layers, coeffs,
                                             h_dense.eq, claim),
                 sparse |-> SparseComputeCubic(h_sparse, coeffs,
                                               h_sparse.eq, claim),
                 alldense |-> SparseComputeCubic(h_alldense, coeffs,
                                                 h_alldense.eq, claim)]
    /\ UNCHANGED <<h_pc, h_dense, h_sparse, h_alldense, h_pre, h_loop, h_final,
                   leaves, tlabel, proverVars, verifierVars, treeVars>>

\* The end of prove_sumcheck: the loop's range is used up, the eq polynomial
\* is checked to have length 1 and final_claims is returned.
HFinalClaims ==
    /\ h_pc = "ready"
    /\ h_cubic = <<>>
    /\ h_loop.round = h_loop.rounds
    /\ h_final' = [eq_ok |-> Len(h_sparse.eq) = 1,
                   sparse |-> SparseFinalClaims(h_sparse),
                   alldense |-> SparseFinalClaims(h_alldense),
                   dense_ok |-> DenseFinalClaimsOk(h_dense.layers),
                   dense |-> DenseFinalClaims(h_dense.layers)]
    /\ h_pc' = "done"
    /\ UNCHANGED <<h_dense, h_sparse, h_alldense, h_pre, h_cubic, h_loop,
                   leaves, tlabel, proverVars, verifierVars, treeVars>>

\* The layer above: layer_output on every tree of the two dynamic-density
\* batches and the products of the dense batch, before any bind; the new
\* layer gets an eq polynomial of its own size and a prove_sumcheck of its
\* own.
HLayerOutput ==
    /\ h_pc = "ready"
    /\ h_cubic = <<>>
    /\ h_pre = <<>>
    /\ h_sparse.layer_len >= 4
    /\ LET outputLen == h_sparse.layer_len \div 2
           eq == Truncate(h_sparse.eq, outputLen \div 2)
       IN  /\ h_dense' = [layers |-> ProductLayer(h_dense.layers), eq |-> eq]
           /\ h_sparse' = [layer_len |-> outputLen,
                           layers |-> [b \in 1 .. Len(h_sparse.layers) |->
                               LayerOutput(h_sparse.layers[b], outputLen)],
                           eq |-> eq]
           /\ h_alldense' = [layer_len |-> outputLen,
                             layers |-> [b \in 1 .. Len(h_alldense.layers) |->
                                 LayerOutput(h_alldense.layers[b], outputLen)],
                             eq |-> eq]
           /\ h_loop' = [rounds |-> SparseNumRounds([layer_len |-> outputLen]),
                         round |-> 0, len0 |-> outputLen]
    /\ UNCHANGED <<h_pc, h_pre, h_cubic, h_final, leaves, tlabel, proverVars,
                   verifierVars, treeVars>>

HNext == HBind \/ HComputeCubic \/ HFinalClaims \/ HLayerOutput

SpecLayer == HInit /\ [][HNext]_vars

(***************************************************************************)
(* One operation of a dynamic-density batch on drawn inputs: bind,         *)
(* layer_output or final_claims applied once to a batch of two trees.      *)
(***************************************************************************)
\* The layer lengths tried; 10 and 20 give the ratios 0.8 and 0.85.
TreeLens == {2, 4, 8, 10, 20}

\* A layer of length len with e values different from one, spread over the
\* positions by the seed, and one everywhere else.
TreeValuesAt(seed, len, e, stride) ==
    [i \in 1 .. len |->
        IF (stride * (i - 1) + seed) % len < e
        THEN (2 + (Rng(seed, i) % (P - 1))) % P
        ELSE One]

TreeValues(seed, len, e) == TreeValuesAt(seed, len, e, 3)

\* The strides tried for the Sparse tree: 3 scatters the ones, 9 leaves both
\* members of a pair at one when three of twenty values are.
TreeStrides == {3, 9}

\* The batch: one tree of each variant, the first with e values that are
\* not one, the second with len - e; layer_len is the trees' length, or 2
\* for a caller that hands over longer trees than it declares.
TInit ==
    /\ \E len \in TreeLens, seed \in 0 .. MaxSeed, sparseFirst \in BOOLEAN,
          stride \in TreeStrides :
       \E e \in 0 .. len, layerLen \in {len, 2} :
          LET s == SparseLayer(ToSparse(TreeValuesAt(seed, len,
                                   IF sparseFirst THEN e ELSE len - e,
                                   stride)))
              d == DenseLayer(TreeValues(seed + 1, len,
                                   IF sparseFirst THEN len - e ELSE e))
          IN  t_in = [layer_len |-> layerLen, len |-> len,
                      layers |-> IF sparseFirst THEN <<s, d>> ELSE <<d, s>>]
    /\ t_pc = "input"
    /\ t_out = <<>>
    /\ leaves = <<>>
    /\ tlabel = 0
    /\ ProverIdle
    /\ VerifierIdle
    /\ HarnessOff

\* bind on the layers of the batch (debug_assert!(layer_len % 4 == 0)).
TBind ==
    /\ t_pc = "input"
    /\ t_in.layer_len = t_in.len
    /\ t_in.layer_len % 4 = 0
    /\ \E r \in F :
          t_out' = [op |-> "bind", r |-> r,
                    batch |-> SparseBind(t_in, r)]
    /\ t_pc' = "done"
    /\ UNCHANGED <<t_in, leaves, tlabel, proverVars, verifierVars, harnessVars>>

\* layer_output(layer_len / 2) on every tree of the batch.
TLayerOutput ==
    /\ t_pc = "input"
    /\ t_in.layer_len = t_in.len
    /\ t_out' = [op |-> "layer_output", r |-> Zero,
                 batch |-> [layer_len |-> t_in.layer_len \div 2,
                            layers |-> [b \in 1 .. Len(t_in.layers) |->
                                LayerOutput(t_in.layers[b],
                                            t_in.layer_len \div 2)]]]
    /\ t_pc' = "done"
    /\ UNCHANGED <<t_in, leaves, tlabel, proverVars, verifierVars, harnessVars>>

\* final_claims on the batch.
TFinalClaims ==
    /\ t_pc = "input"
    /\ t_out' = [op |-> "final_claims", r |-> Zero,
                 claims |-> SparseFinalClaims(t_in)]
    /\ t_pc' = "done"
    /\ UNCHANGED <<t_in, leaves, tlabel, proverVars, verifierVars, harnessVars>>

TNext == TBind \/ TLayerOutput \/ TFinalClaims

SpecTree == TInit /\ [][TNext]_vars

(***************************************************************************)
(* One bind call with its parallel tasks taken step by step: rayon::join   *)
(* forks the closure over the trees (one par_iter_mut task per tree) and   *)
(* the closure binding the eq polynomial; the tasks' steps interleave in   *)
(* any order.  The batch is a BatchedSparseGrandProductLayer (one Sparse   *)
(* and one Dense tree) or a BatchedDenseGrandProductLayer (two vectors).   *)
(***************************************************************************)
BindLens == {4, 8}

VecLayer(values) == [tag |-> "Vec", sparse |-> <<>>, dense |-> values]

BInit ==
    /\ \E len \in BindLens, seed \in 0 .. MaxSeed,
          kind \in {"sparse", "dense"}, r \in F :
       \E e \in 0 .. len :
          LET first == TreeValues(seed, len, e)
              second == TreeValues(seed + 1, len, len - e)
          IN  t_in = [kind |-> kind,
                      layer_len |-> IF kind = "sparse" THEN len ELSE 0,
                      layers |-> IF kind = "sparse"
                                 THEN <<SparseLayer(ToSparse(first)),
                                        DenseLayer(second)>>
                                 ELSE <<VecLayer(first), VecLayer(second)>>,
                      eq |-> RandomVector(seed, len \div 2),
                      r |-> r]
    /\ t_pc = "input"
    /\ t_out = <<>>
    /\ leaves = <<>>
    /\ tlabel = 0
    /\ ProverIdle
    /\ VerifierIdle
    /\ HarnessOff

\* rayon::join returns once both closures have returned, and the first one
\* returns once every task of par_iter_mut has.
JoinReadyEarly(tasks, eqDone) == TRUE

JoinReady(tasks, eqDone) ==
    /\ eqDone
    /\ \A b \in 1 .. Len(tasks) : tasks[b].pc = "done"

\* What a tree's task holds when it starts: the length it read (layer_len,
\* or the vector's own length in the dense batch) and, for a Sparse tree,
\* the bound_layer it allocated and its two cursors.
TaskStart(layer, layerLen) ==
    [pc |-> "run",
     n |-> IF layer.tag = "Vec" THEN Len(layer.dense) ELSE layerLen,
     j |-> 0,
     acc |-> IF layer.tag = "Sparse"
             THEN [out |-> IF AboveThreshold(Len(layer.sparse), layerLen)
                           THEN DenseLayer([i \in 1 .. (layerLen \div 2) |-> One])
                           ELSE SparseLayer(<<>>),
                   nextLeft |-> 0, nextRight |-> 0,
                   clean |-> TRUE, inside |-> TRUE]
             ELSE <<>>]

\* The number of iterations of the task's loop.
TaskIterations(layer, task) ==
    IF layer.tag = "Sparse" THEN Len(layer.sparse) ELSE task.n \div 4

\* The tree after iteration j of its task: a Sparse tree is only read, a
\* Dense tree or a vector is folded in place.
TaskStepLayer(layer, task, r) ==
    IF layer.tag = "Sparse" THEN layer
    ELSE [layer EXCEPT !.dense =
             DenseBindLoop([layer |-> @, written |-> {}, stale |-> FALSE],
                           r, task.j, task.j + 1).layer]

\* The task after iteration j.
TaskStepLocal(layer, task, r) ==
    IF layer.tag = "Sparse"
    THEN [task EXCEPT !.j = @ + 1,
                      !.acc = SparseBindStep(@, layer.sparse, task.j, r)]
    ELSE [task EXCEPT !.j = @ + 1]

\* The tree when its task ends: *layer = bound_layer for a Sparse tree,
\* truncate for a vector of the dense batch, nothing for a Dense tree.
TaskFinishLayer(layer, task) ==
    CASE layer.tag = "Sparse" -> task.acc.out
      [] layer.tag = "Vec" ->
            [layer EXCEPT !.dense = Truncate(@, Len(@) \div 2)]
      [] OTHER -> layer

BFork ==
    /\ t_pc = "input"
    /\ t_out' = [layer_len |-> t_in.layer_len,
                 layers |-> t_in.layers,
                 eq |-> t_in.eq,
                 tasks |-> [b \in 1 .. Len(t_in.layers) |->
                              [pc |-> "wait", n |-> 0, j |-> 0, acc |-> <<>>]],
                 eq_done |-> FALSE]
    /\ t_pc' = "forked"
    /\ UNCHANGED <<t_in, leaves, tlabel, proverVars, verifierVars, harnessVars>>

BTaskStart ==
    /\ t_pc = "forked"
    /\ \E b \in 1 .. Len(t_out.tasks) :
          /\ t_out.tasks[b].pc = "wait"
          /\ t_out' = [t_out EXCEPT !.tasks[b] =
                          TaskStart(t_out.layers[b], t_out.layer_len)]
    /\ UNCHANGED <<t_pc, t_in, leaves, tlabel, proverVars, verifierVars,
                   harnessVars>>

BTaskStep ==
    /\ t_pc = "forked"
    /\ \E b \in 1 .. Len(t_out.tasks) :
          /\ t_out.tasks[b].pc = "run"
          /\ t_out.tasks[b].j < TaskIterations(t_out.layers[b], t_out.tasks[b])
          /\ t_out' = [t_out EXCEPT
                          !.layers[b] = TaskStepLayer(@, t_out.tasks[b], t_in.r),
                          !.tasks[b] = TaskStepLocal(t_out.layers[b], @, t_in.r)]
    /\ UNCHANGED <<t_pc, t_in, leaves, tlabel, proverVars, verifierVars,
                   harnessVars>>

BTaskFinish ==
    /\ t_pc = "forked"
    /\ \E b \in 1 .. Len(t_out.tasks) :
          /\ t_out.tasks[b].pc = "run"
          /\ t_out.tasks[b].j = TaskIterations(t_out.layers[b], t_out.tasks[b])
          /\ t_out' = [t_out EXCEPT
                          !.layers[b] = TaskFinishLayer(@, t_out.tasks[b]),
                          !.tasks[b].pc = "done"]
    /\ UNCHANGED <<t_pc, t_in, leaves, tlabel, proverVars, verifierVars,
                   harnessVars>>

\* The second closure: eq_poly.bound_poly_var_bot(r).
BEqTask ==
    /\ t_pc = "forked"
    /\ ~t_out.eq_done
    /\ t_out' = [t_out EXCEPT !.eq = BoundPolyVarBot(@, t_in.r),
                              !.eq_done = TRUE]
    /\ UNCHANGED <<t_pc, t_in, leaves, tlabel, proverVars, verifierVars,
                   harnessVars>>

\* After the join: self.layer_len /= 2 in the dynamic-density batch.
BJoin ==
    /\ t_pc = "forked"
    /\ JoinReady(t_out.tasks, t_out.eq_done)
    /\ t_out' = [t_out EXCEPT !.layer_len =
                    IF t_in.kind = "sparse" THEN @ \div 2 ELSE @]
    /\ t_pc' = "joined"
    /\ UNCHANGED <<t_in, leaves, tlabel, proverVars, verifierVars, harnessVars>>

BNext == BFork \/ BTaskStart \/ BTaskStep \/ BTaskFinish \/ BEqTask \/ BJoin

SpecBind == BInit /\ [][BNext]_vars

Next == ProverNext \/ VerifierNext

Spec == Init /\ [][Next]_vars

(***************************************************************************)
(* Properties of the prover/verifier protocol.                             *)
(***************************************************************************)
\* The verifier was handed exactly what the prover produced.
Honest == v_pc # "idle" /\ v_proof = p_proof /\ v_in = claims

NumVars == Log2(Len(leaves[1]))

BatchSize == Len(leaves)

IsPrefix(s, t) == Len(s) <= Len(t) /\ s = SubSeq(t, 1, Len(s))

\* C1 (completeness): on the prover's own proof and claims, with an
\* identically initialised transcript, the verifier never rejects, and the
\* r_grand_product it returns equals the prover's, element by element.
C1_Completeness ==
    Honest =>
        /\ v_pc # "rejected"
        /\ v_pc = "done" => (v_r = p_r /\ v_k = NumVars)

C1_Witness ==
    /\ Honest
    /\ v_pc = "done"
    /\ Len(v_r) >= 2
    /\ BatchSize >= 2
    /\ v_r = p_r
    /\ \E i \in 1 .. Len(v_r) : v_r[i] # v_r[1]

\* The j-th most significant of the n bits of x, j in 1 .. n.
Bit(x, j, n) == (x \div Pow2(n - j)) % 2

\* The multilinear extension of vec at the point r, r[1] binding the most
\* significant bit of the index.
MleEval(vec, r) ==
    FSum([i \in 1 .. Len(vec) |->
        FMul(vec[i],
             FProduct([j \in 1 .. Len(r) |->
                 IF Bit(i - 1, j, Len(r)) = 1 THEN r[j]
                 ELSE FSub(One, r[j])]))])

\* C2: for an honest proof, the claims the verifier returns are the
\* multilinear extensions of the leaf vectors at the returned
\* r_grand_product, which has one element per variable, the first binding
\* the most significant bit of the leaf index and the last, the final
\* r_layer, the least significant one.
C2_LeafClaims ==
    (Honest /\ v_pc = "done") =>
        /\ Len(v_r) = NumVars
        /\ Len(v_claims) = BatchSize
        /\ \A b \in 1 .. BatchSize : v_claims[b] = MleEval(leaves[b], v_r)
        /\ v_r[Len(v_r)] = LastChallenge(v_tr)
        /\ v_tr.log[Len(v_tr.log)][2] = "challenge_r_layer"

C2_Witness ==
    /\ Honest
    /\ v_pc = "done"
    /\ NumVars >= 3
    /\ BatchSize >= 2
    /\ \A b \in 1 .. BatchSize : v_claims[b] = MleEval(leaves[b], v_r)
    /\ \E b \in 1 .. BatchSize : v_claims[b] \notin {Zero, One}
    /\ \E j \in 1 .. Len(v_r) : v_r[j] \notin {Zero, One}

\* The expected sum-check claim of the layer the verifier is at, as the
\* protocol defines it.
C6_Expected ==
    LET rev == [j \in 1 .. Len(v_rsc) |-> v_rsc[Len(v_rsc) + 1 - j]]
        eqEval == FProduct([j \in 1 .. Len(v_r) |->
                     FAdd(FMul(v_r[j], rev[j]),
                          FMul(FSub(One, v_r[j]), FSub(One, rev[j])))])
    IN  FSum([b \in 1 .. Len(v_in) |->
            FMul(FMul(FMul(v_coeffs[b], LayerRecord.left_claims[b]),
                      LayerRecord.right_claims[b]), eqEval)])

C6_Step ==
    /\ v_pc = "check" =>
          IF C6_Expected # v_e
          THEN /\ v_pc' = "rejected"
               /\ v_tr' = v_tr
               /\ v_k' = v_k
               /\ v_claims' = v_claims
          ELSE /\ v_pc' = "fold"
               /\ v_tr' = v_tr
    /\ v_pc = "fold" =>
          /\ v_pc' = "coeffs"
          /\ v_k' = v_k + 1
          /\ v_tr'.log = Append(v_tr.log, <<"challenge_scalar",
                                "challenge_r_layer", LastChallenge(v_tr')>>)
    /\ v_pc # "rejected"

\* C6: at a layer whose sum-check passed and whose claim vectors have
\* length B, a difference between the expected claim
\* sum_b coeffs[b]*left[b]*right[b]*eq_eval and the sum-check's final claim
\* makes the verifier abort there: no r_layer is drawn, no further layer is
\* processed, nothing is returned; when they are equal it goes on to fold.
C6_ClaimMismatch == [][C6_Step]_vars

C6_Witness ==
    /\ v_pc = "rejected"
    /\ v_why = "claim mismatch"
    /\ v_k >= 1
    /\ Len(v_rsc) = v_k
    /\ BatchSize >= 2
    /\ Len(LayerRecord.left_claims) = Len(v_in)
    /\ Len(LayerRecord.right_claims) = Len(v_in)
    /\ C6_Expected # v_e
    /\ v_tr.log[Len(v_tr.log)][2] = "sumcheck right claim"

C7_WrongLength(k) ==
    \/ Len(v_proof[k + 1].left_claims) # Len(v_in)
    \/ Len(v_proof[k + 1].right_claims) # Len(v_in)

\* A layer record with a wrong-length claim vector is never got past.
C7_State ==
    /\ v_pc \in {"coeffs", "sumcheck", "check", "fold", "done"} =>
          /\ \A k \in 0 .. (v_k - 1) : ~C7_WrongLength(k)
          /\ v_pc \in {"check", "fold"} => ~C7_WrongLength(v_k)
    /\ v_pc = "coeffs" => Len(v_claims) = Len(v_in)

C7_Step ==
    /\ C7_State
    /\ C7_State'
    /\ (v_pc = "sumcheck" /\ Len(v_rsc) = v_k /\ C7_WrongLength(v_k)) =>
          /\ v_pc' = "rejected"
          /\ v_tr' = v_tr
    /\ v_pc # "rejected"

\* C7: a layer record whose left_claims or right_claims is not as long as
\* the input claims makes the verifier reject at that layer, before any
\* left/right claim is absorbed, and nothing is returned; so
\* claims_to_verify has length B at the start of every layer.
C7_WrongLengthRejected == [][C7_Step]_vars

C7_Witness ==
    /\ v_pc = "rejected"
    /\ v_why = "claims length"
    /\ v_k >= 1
    /\ Len(LayerRecord.left_claims) = Len(v_in)
    /\ Len(LayerRecord.right_claims) # Len(v_in)
    /\ v_tr.log[Len(v_tr.log)][2] = "challenge_nextround"

\* The kinds and labels of the operations of a log.
LogShape(log) == [i \in 1 .. Len(log) |-> <<log[i][1], log[i][2]>>]

RECURSIVE Repeat(_, _)
Repeat(s, n) == IF n = 0 THEN <<>> ELSE s \o Repeat(s, n - 1)

\* The operations of layer k with B trees: the coefficients, per round the
\* cubic and the round challenge, per tree the left and the right claim,
\* then r_layer.
C8_LayerShape(k, B) ==
    <<<<"challenge_vector", "rand_coeffs_next_layer">>>>
    \o Repeat(<<<<"append_polynomial", "poly">>,
                <<"challenge_scalar", "challenge_nextround">>>>, k)
    \o Repeat(<<<<"append_scalar", "sumcheck left claim">>,
                <<"append_scalar", "sumcheck right claim">>>>, B)
    \o <<<<"challenge_scalar", "challenge_r_layer">>>>

RECURSIVE C8_Shape(_, _)
C8_Shape(n, B) ==
    IF n = 0 THEN <<>> ELSE C8_Shape(n - 1, B) \o C8_LayerShape(n - 1, B)

\* The values a log absorbed or drew under a label, in order.
C8_Values(log, label) ==
    LET hits == SelectSeq(log, LAMBDA e : e[2] = label)
    IN  [i \in 1 .. Len(hits) |-> hits[i][3]]

RECURSIVE C8_Flatten(_)
C8_Flatten(ss) == IF ss = <<>> THEN <<>> ELSE ss[1] \o C8_Flatten(Tail(ss))

\* C8: per layer the prover performs challenge_vector(rand_coeffs_next_layer,
\* B), then per round append(poly) and challenge_scalar(challenge_nextround),
\* then per tree append(left claim), append(right claim), then
\* challenge_scalar(challenge_r_layer); on the prover's proof the verifier
\* performs the same operations with the same values, so it draws the same
\* coefficients, round challenges and r_layer.
C8_TranscriptOrder ==
    /\ p_pc \notin {"construct"} =>
          /\ IsPrefix(LogShape(p_tr.log), C8_Shape(NumVars, BatchSize))
          /\ p_pc = "done" =>
                /\ LogShape(p_tr.log) = C8_Shape(NumVars, BatchSize)
                /\ C8_Values(p_tr.log, "sumcheck left claim")
                     = C8_Flatten([k \in 1 .. Len(p_proof) |->
                                      p_proof[k].left_claims])
                /\ C8_Values(p_tr.log, "sumcheck right claim")
                     = C8_Flatten([k \in 1 .. Len(p_proof) |->
                                      p_proof[k].right_claims])
                /\ LET polys == C8_Values(p_tr.log, "poly")
                   IN  [i \in 1 .. Len(polys) |-> Compress(polys[i])]
                         = C8_Flatten([k \in 1 .. Len(p_proof) |->
                                          p_proof[k].proof])
    /\ Honest =>
          /\ IsPrefix(v_tr.log, p_tr.log)
          /\ v_pc = "done" => v_tr = p_tr
          /\ v_pc \in {"sumcheck", "check", "fold"} =>
                v_coeffs = C8_Values(p_tr.log, "rand_coeffs_next_layer")[v_k + 1]

C8_Witness ==
    /\ Honest
    /\ v_pc = "done"
    /\ NumVars >= 3
    /\ BatchSize >= 2
    /\ v_tr = p_tr
    /\ LogShape(v_tr.log) = C8_Shape(NumVars, BatchSize)

\* C9: the proof of B trees of 2^n leaves has n layer records, the k-th
\* (k = 0 the root layer) with k compressed cubics and left_claims and
\* right_claims of length B.
C9_ProofLayout ==
    p_pc \notin {"construct", "start"} =>
        /\ Len(p_proof) = p_k
        /\ p_pc = "done" => Len(p_proof) = NumVars
        /\ \A k \in 0 .. (Len(p_proof) - 1) :
              /\ Len(p_proof[k + 1].proof) = k
              /\ \A j \in 1 .. k : Len(p_proof[k + 1].proof[j]) = 3
              /\ Len(p_proof[k + 1].left_claims) = BatchSize
              /\ Len(p_proof[k + 1].right_claims) = BatchSize

C9_Witness ==
    /\ p_pc = "done"
    /\ NumVars >= 3
    /\ BatchSize >= 2
    /\ Len(p_proof) = NumVars
    /\ Len(p_proof[NumVars].proof) = NumVars - 1

\* C10 for one party: r_grand_product is empty before the first layer, has
\* length k at the start of layer k, that layer's number of rounds, and
\* after the layer is its round challenges reversed, then its r_layer.
C10_Point(pc, k, r, rsc, tr) ==
    /\ pc = "coeffs" =>
          /\ Len(r) = k
          /\ k = 0 => r = <<>>
          /\ k > 0 =>
                /\ Len(rsc) = k - 1
                /\ r = [j \in 1 .. k |->
                          IF j < k THEN rsc[k - j] ELSE LastChallenge(tr)]
                /\ tr.log[Len(tr.log)][2] = "challenge_r_layer"
                /\ C8_Values(SubSeq(tr.log, Len(tr.log) - 2 * (k - 1)
                                            - 2 * Len(tr.log[1][3]),
                                    Len(tr.log)),
                             "challenge_nextround") = rsc

\* C10: in the prover and in the verifier, r_grand_product is empty before
\* the first layer, has length k at the start of layer k (that layer's
\* number of sum-check rounds), and after layer k is the layer's sum-check
\* challenges in reverse round order followed by its r_layer; its final
\* length is log2(L).
C10_AccumulatedPoint ==
    /\ C10_Point(p_pc, p_k, p_r, p_rsc, p_tr)
    /\ p_pc = "round" /\ p_rsc = <<>> => Len(p_r) = p_rounds /\ p_rounds = p_k
    /\ p_pc = "done" => Len(p_r) = NumVars
    /\ C10_Point(v_pc, v_k, v_r, v_rsc, v_tr)
    /\ v_pc = "sumcheck" /\ v_rsc = <<>> => Len(v_r) = v_k
    /\ v_pc = "done" => Len(v_r) = Len(v_proof)
    /\ (Honest /\ v_pc = "done") => Len(v_r) = NumVars

C10_Witness ==
    /\ Honest
    /\ v_pc = "done"
    /\ NumVars >= 3
    /\ Len(p_rsc) = 2
    /\ p_rsc[1] # p_rsc[2]
    /\ p_r = <<p_rsc[2], p_rsc[1], LastChallenge(p_tr)>>
    /\ v_r = <<v_rsc[2], v_rsc[1], LastChallenge(v_tr)>>

(***************************************************************************)
(* Properties of the layer operations.                                     *)
(***************************************************************************)
\* C3 (bind parity): after every bind of a dense batch and of its sparse
\* encoding with the same r and equal eq polynomials, the first layer_len
\* values of every densified tree equal the dense tree and the two eq
\* polynomials are equal, also in rounds after a tree went from Sparse to
\* Dense.
C3_BindParity ==
    h_pc = "ready" =>
        /\ Condense(h_sparse) = h_dense.layers
        /\ h_sparse.eq = h_dense.eq
        /\ \A b \in 1 .. Len(h_dense.layers) :
              Len(h_dense.layers[b]) = h_sparse.layer_len

C3_Witness ==
    /\ h_pc = "ready"
    /\ h_pre # <<>>
    /\ h_pre.sparse.layer_len = 4
    /\ Len(h_sparse.layers) >= 2
    /\ \E b \in 1 .. Len(h_sparse.layers) :
          /\ h_pre.sparse.layers[b].tag = "Dense"
          /\ h_dense.layers[b] # <<One, One>>
    /\ \E b \in 1 .. Len(h_sparse.layers) :
          /\ h_sparse.layers[b].tag = "Sparse"
          /\ h_sparse.layers[b].sparse # <<>>
    /\ Condense(h_sparse) = h_dense.layers

\* C4 (cubic parity): for a layer held as Dense trees and as Sparse trees,
\* compute_cubic with the same coefficients, eq polynomial and previous
\* claim returns the same polynomial, which is also the one
\* BatchedDenseGrandProductLayer::compute_cubic returns.
C4_CubicParity ==
    h_cubic # <<>> =>
        /\ h_cubic.sparse = h_cubic.alldense
        /\ h_cubic.sparse = h_cubic.dense

C4_Witness ==
    /\ h_cubic # <<>>
    /\ h_pre = <<>>
    /\ h_sparse.layer_len >= 8
    /\ Len(h_sparse.layers) >= 2
    /\ \A b \in 1 .. Len(h_sparse.layers) :
          /\ h_sparse.layers[b].tag = "Sparse"
          /\ Len(h_sparse.layers[b].sparse) >= 1
          /\ h_alldense.layers[b].tag = "Dense"
          /\ h_cubic.coeffs[b] # Zero
    /\ \E b \in 1 .. Len(h_sparse.layers) :
          Len(h_sparse.layers[b].sparse) < h_sparse.layer_len
    /\ h_cubic.sparse = h_cubic.dense
    /\ h_cubic.dense[4] # Zero

\* The postcondition of a dense bind with r: position by position in terms
\* of the layer before the call, for the first len / 4 quartets.
C5_Folded(old, new, len, r) ==
    \A i \in 0 .. (len \div 4 - 1) :
        /\ At(new, 2 * i)
             = FAdd(At(old, 4 * i),
                    FMul(r, FSub(At(old, 4 * i + 2), At(old, 4 * i))))
        /\ At(new, 2 * i + 1)
             = FAdd(At(old, 4 * i + 1),
                    FMul(r, FSub(At(old, 4 * i + 3), At(old, 4 * i + 1))))

\* C5: after bind(eq, r) a dense layer of length len has length len / 2 and
\* new[2i] = old[4i] + r*(old[4i+2] - old[4i]),
\* new[2i+1] = old[4i+1] + r*(old[4i+3] - old[4i+1]) for i < len / 4, old
\* being the layer before the call; the ascending in-place loop never reads
\* a position an earlier iteration assigned.  For a Dense tree of a
\* dynamic-density batch the length is the batch's layer_len.
C5_DenseBind ==
    h_pre # <<>> =>
        /\ \A b \in 1 .. Len(h_dense.layers) :
              LET old == h_pre.dense.layers[b]
              IN  /\ Len(h_dense.layers[b]) = Len(old) \div 2
                  /\ C5_Folded(old, h_dense.layers[b], Len(old), h_pre.r)
                  /\ ~DenseBindRun(old, h_pre.r).stale
        /\ h_alldense.layer_len = h_pre.alldense.layer_len \div 2
        /\ \A b \in 1 .. Len(h_alldense.layers) :
              LET old == h_pre.alldense.layers[b].dense
                  len == h_pre.alldense.layer_len
              IN  /\ h_alldense.layers[b].tag = "Dense"
                  /\ C5_Folded(old, h_alldense.layers[b].dense, len, h_pre.r)
                  /\ ~DenseArmRun(old, len, h_pre.r).stale

C5_Witness ==
    /\ h_pre # <<>>
    /\ h_pre.alldense.layer_len = 4
    /\ Len(h_pre.dense.layers[1]) = 4
    /\ Len(h_pre.alldense.layers[1].dense) = 8
    /\ h_pre.r \notin {Zero, One}
    /\ h_dense.layers[1] # SubSeq(h_pre.dense.layers[1], 1, 2)
    /\ Len(h_dense.layers[1]) = 2
    /\ C5_Folded(h_pre.dense.layers[1], h_dense.layers[1], 4, h_pre.r)

\* The sum law for one returned polynomial g, the sums it was built from and
\* the previous claim.
C11_Law(g, sums, claim) ==
    /\ FAdd(Evaluate(g, 0), Evaluate(g, 1)) = claim
    /\ Evaluate(g, 0) = sums[1]
    /\ Evaluate(g, 2) = sums[2]
    /\ Evaluate(g, 3) = sums[3]
    /\ Evaluate(g, 1) = FSub(claim, Evaluate(g, 0))

\* C11 (round sum law): the polynomial g that compute_cubic returns, in the
\* dense and in the dynamic-density implementation, has g(0) + g(1) equal to
\* the previous claim, g(0), g(2), g(3) equal to the computed sums and
\* g(1) = previous_claim - g(0).
C11_RoundSumLaw ==
    h_cubic # <<>> =>
        /\ C11_Law(h_cubic.dense,
                   DenseCubicEvals(h_dense.layers, h_cubic.coeffs, h_dense.eq),
                   h_cubic.claim)
        /\ C11_Law(h_cubic.sparse,
                   SparseCubicEvals(h_sparse, h_cubic.coeffs, h_sparse.eq),
                   h_cubic.claim)
        /\ C11_Law(h_cubic.alldense,
                   SparseCubicEvals(h_alldense, h_cubic.coeffs, h_alldense.eq),
                   h_cubic.claim)

C11_Witness ==
    /\ h_cubic # <<>>
    /\ h_cubic.claim # Zero
    /\ Evaluate(h_cubic.sparse, 0) # Zero
    /\ Evaluate(h_cubic.sparse, 1) \notin {Zero, h_cubic.claim}
    /\ Evaluate(h_cubic.sparse, 2) # Evaluate(h_cubic.sparse, 3)
    /\ \E b \in 1 .. Len(h_sparse.layers) :
          h_sparse.layers[b].tag = "Sparse" /\ h_sparse.layers[b].sparse # <<>>
    /\ C11_Law(h_cubic.dense,
               DenseCubicEvals(h_dense.layers, h_cubic.coeffs, h_dense.eq),
               h_cubic.claim)

(***************************************************************************)
(* Determinism of the prover.                                              *)
(***************************************************************************)
\* What one round of prove_sumcheck produces when the tasks run one after
\* the other in index order: the cubic, the challenge, the bound layers.
C12_Sequential ==
    LET g == DenseComputeCubic(CurrentLayer, p_coeffs, p_eq, p_prev)
        tr == ChallengeScalar(AppendPolynomial(p_tr, "poly", g),
                              "challenge_nextround")
    IN  [cubic |-> Compress(g), tr |-> tr, r |-> LastChallenge(tr),
         layer |-> DenseBind(CurrentLayer, LastChallenge(tr)),
         claim |-> Evaluate(g, LastChallenge(tr))]

C12_Step ==
    (p_pc = "round" /\ Len(p_rsc') = Len(p_rsc) + 1) =>
        /\ p_cubics' = Append(p_cubics, C12_Sequential.cubic)
        /\ p_tr' = C12_Sequential.tr
        /\ p_rsc' = Append(p_rsc, C12_Sequential.r)
        /\ p_prev' = C12_Sequential.claim
        /\ layers' = [layers EXCEPT ![NumLayers(layers) - p_k] =
                                        C12_Sequential.layer]

\* C12 (Fiat-Shamir determinism): whatever the order in which the parallel
\* per-quartet tasks of compute_cubic and per-tree tasks of bind complete,
\* a round of the prover leaves the same cubic, challenge, claim and layers
\* as the sequential order, so two runs from equal states and transcripts
\* build equal proofs and equal r_grand_product.
C12_Determinism == [][C12_Step]_vars

C12_Witness ==
    /\ p_pc = "done"
    /\ NumVars >= 3
    /\ BatchSize >= 2
    /\ Len(p_proof[NumVars].proof) = 2
    /\ \E c \in 1 .. 2 : \E i \in 2 .. 3 : p_proof[NumVars].proof[c][i] # Zero
    /\ Len(p_r) = NumVars

(***************************************************************************)
(* The constructor.                                                        *)
(***************************************************************************)
\* C13 (leaf constructor): construct on B leaf vectors of length 2^n builds
\* n layers, layer 0 the leaves, every next layer half as long with entry i
\* the product of entries 2i and 2i+1 of the layer below, the last layer of
\* length 2; claims()[b] is the product of the two entries of tree b's last
\* layer and of all leaves of tree b.
C13_Constructor ==
    p_pc = "start" =>
        /\ NumLayers(layers) = NumVars
        /\ layers[1] = leaves
        /\ \A k \in 1 .. (NumVars - 1) : \A b \in 1 .. BatchSize :
              /\ Len(layers[k + 1]) = BatchSize
              /\ 2 * Len(layers[k + 1][b]) = Len(layers[k][b])
              /\ \A i \in 0 .. (Len(layers[k + 1][b]) - 1) :
                    At(layers[k + 1][b], i)
                      = FMul(At(layers[k][b], 2 * i), At(layers[k][b], 2 * i + 1))
        /\ Len(claims) = BatchSize
        /\ \A b \in 1 .. BatchSize :
              /\ Len(layers[NumVars][b]) = 2
              /\ claims[b] = FMul(layers[NumVars][b][1], layers[NumVars][b][2])
              /\ claims[b] = FProduct(leaves[b])

C13_Witness ==
    /\ p_pc = "start"
    /\ NumVars >= 3
    /\ BatchSize >= 2
    /\ NumLayers(layers) = 3
    /\ claims[1] \notin {Zero, One}
    /\ claims[2] # Zero
    /\ claims[1] = FProduct(leaves[1])
    /\ layers[2][1] # SubSeq(leaves[1], 1, 4)

(***************************************************************************)
(* prove_sumcheck on a batched dynamic-density layer.                      *)
(***************************************************************************)
\* C14 (round count): prove_sumcheck on a batch with layer_len = 2^m and an
\* eq polynomial of length layer_len / 2 performs exactly m - 1 rounds; each
\* bind halves layer_len and the eq polynomial; layer_len is a power of two
\* >= 2 in every state in between; the loop ends with layer_len = 2 and an
\* eq polynomial of length 1.
C14_RoundCount ==
    h_pc \in {"ready", "done"} =>
        /\ h_loop.round <= h_loop.rounds
        /\ h_sparse.layer_len * Pow2(h_loop.round) = h_loop.len0
        /\ h_sparse.layer_len >= 2
        /\ h_sparse.layer_len = Pow2(Log2(h_sparse.layer_len))
        /\ 2 * Len(h_sparse.eq) = h_sparse.layer_len
        /\ h_pre # <<>> =>
              /\ 2 * h_sparse.layer_len = h_pre.sparse.layer_len
              /\ 2 * Len(h_sparse.eq) = Len(h_pre.sparse.eq)
        /\ h_pc = "done" =>
              /\ h_loop.round = Log2(h_loop.len0) - 1
              /\ h_sparse.layer_len = 2
              /\ Len(h_sparse.eq) = 1
              /\ h_final.eq_ok

C14_Witness ==
    /\ h_pc = "done"
    /\ h_loop.len0 = 8
    /\ h_loop.round = 2
    /\ h_sparse.layer_len = 2
    /\ Len(h_sparse.eq) = 1
    /\ \E b \in 1 .. Len(h_sparse.layers) : h_sparse.layers[b].tag = "Sparse"

(***************************************************************************)
(* Properties of single operations on a dynamic-density batch.             *)
(***************************************************************************)
\* The claims final_claims owes for one tree of a batch of layer_len 2.
C15_TreeClaims(tree, left, right) ==
    /\ tree.tag = "Dense" =>
          left = At(tree.dense, 0) /\ right = At(tree.dense, 1)
    /\ tree.tag = "Sparse" =>
          /\ (\A k \in 1 .. Len(tree.sparse) : tree.sparse[k][1] < 2) =>
                /\ left = At(CondenseTree(tree, 2), 0)
                /\ right = At(CondenseTree(tree, 2), 1)
          /\ Len(tree.sparse) = 0 => left = One /\ right = One
          /\ (Len(tree.sparse) = 1 /\ tree.sparse[1][1] = 0) =>
                left = tree.sparse[1][2] /\ right = One
          /\ (Len(tree.sparse) = 1 /\ tree.sparse[1][1] = 1) =>
                left = One /\ right = tree.sparse[1][2]
          /\ Len(tree.sparse) = 2 =>
                left = tree.sparse[1][2] /\ right = tree.sparse[2][2]

\* C15: final_claims on a batch with layer_len = 2 returns for every tree
\* (d[0], d[1]), d the tree's densification: (layer[0], layer[1]) for a
\* Dense tree, (one, one), (v, one), (one, v) or (v0, v1) for a Sparse tree
\* with no entry, one at index 0, one at index 1, or two; with layer_len
\* other than 2 or a Sparse tree of more than two entries it aborts.
C15_FinalClaims ==
    (t_pc = "done" /\ t_out.op = "final_claims") =>
        /\ ~t_out.claims.ok <=>
              \/ t_in.layer_len # 2
              \/ \E b \in 1 .. Len(t_in.layers) :
                    /\ t_in.layers[b].tag = "Sparse"
                    /\ Len(t_in.layers[b].sparse) > 2
        /\ t_out.claims.ok =>
              /\ Len(t_out.claims.left) = Len(t_in.layers)
              /\ Len(t_out.claims.right) = Len(t_in.layers)
              /\ \A b \in 1 .. Len(t_in.layers) :
                    C15_TreeClaims(t_in.layers[b], t_out.claims.left[b],
                                   t_out.claims.right[b])
        /\ ~t_out.claims.ok =>
              t_out.claims.left = <<>> /\ t_out.claims.right = <<>>

C15_Witness ==
    /\ t_pc = "done"
    /\ t_out.op = "final_claims"
    /\ t_out.claims.ok
    /\ t_in.layers[1].tag = "Sparse"
    /\ Len(t_in.layers[1].sparse) = 1
    /\ t_in.layers[1].sparse[1][1] = 1
    /\ t_out.claims.left[1] = One
    /\ t_out.claims.right[1] = t_in.layers[1].sparse[1][2]
    /\ t_out.claims.right[1] # One
    /\ t_in.layers[2].tag = "Dense"
    /\ t_out.claims.left[2] = t_in.layers[2].dense[1]

\* C16 (densification trigger): bind, and layer_output with
\* n = 2 * output_len, turn a Sparse tree of e explicit entries in a layer
\* of length n into a Dense tree of length n / 2 exactly when e / n > 0.8,
\* that is 5 * e > 4 * n (e.g. 17 of 20), and into a Sparse tree otherwise
\* (e.g. 10 of 20, and 16 of 20 which is exactly 0.8).
C16_Trigger ==
    (t_pc = "done" /\ t_out.op \in {"bind", "layer_output"}) =>
        \A b \in 1 .. Len(t_in.layers) :
            t_in.layers[b].tag = "Sparse" =>
                LET e == Len(t_in.layers[b].sparse)
                    n == t_in.layer_len
                    out == t_out.batch.layers[b]
                IN  /\ out.tag = "Dense" <=> 5 * e > 4 * n
                    /\ out.tag = "Sparse" <=> 5 * e <= 4 * n
                    /\ out.tag = "Dense" => Len(out.dense) = n \div 2
                    /\ t_out.batch.layer_len = n \div 2

C16_Witness ==
    /\ t_pc = "done"
    /\ t_out.op = "bind"
    /\ t_in.layer_len = 20
    /\ t_in.layers[1].tag = "Sparse"
    /\ Len(t_in.layers[1].sparse) = 17
    /\ t_out.batch.layers[1].tag = "Dense"
    /\ Len(t_out.batch.layers[1].dense) = 10
    /\ t_out.r \notin {Zero, One}

(***************************************************************************)
(* The variants of the trees over sequences of operations.                 *)
(***************************************************************************)
\* Every tree of the batch that is Dense before the step is Dense after it.
C17_StaysDense(before, after) ==
    \A b \in 1 .. Len(before.layers) :
        before.layers[b].tag = "Dense" => after.layers[b].tag = "Dense"

C17_Step ==
    h_pc = "ready" =>
        /\ C17_StaysDense(h_sparse, h_sparse')
        /\ C17_StaysDense(h_alldense, h_alldense')

\* C17 (Dense is absorbing): over every sequence of layer_output and bind
\* calls on a batched dynamic-density layer, a tree whose variant is Dense
\* is Dense in every later state; no Dense tree becomes Sparse.
C17_DenseAbsorbing == [][C17_Step]_vars

C17_Witness ==
    /\ h_pc = "ready"
    /\ h_pre # <<>>
    /\ h_loop.len0 = 4
    /\ Len(h_sparse.layers) >= 2
    /\ \E b \in 1 .. Len(h_sparse.layers) :
          /\ h_pre.sparse.layers[b].tag = "Dense"
          /\ h_sparse.layers[b].tag = "Dense"
          /\ Len(ToSparse(SubSeq(h_sparse.layers[b].dense, 1, 2))) <= 1
    /\ \E b \in 1 .. Len(h_sparse.layers) : h_sparse.layers[b].tag = "Sparse"

(***************************************************************************)
(* The smallest circuit.                                                   *)
(***************************************************************************)
\* C18 (degenerate single layer): for L = 2 and B = 1 with leaves (a, b),
\* claims() = [a*b]; the proof has one layer record with no sum-check round
\* polynomial, left_claims = [a] and right_claims = [b]; no round runs, so
\* compute_cubic and bind are never called; the verifier accepts the proof
\* and returns r_grand_product = [r_layer].
C18_SingleLayer ==
    (h_pc = "off" /\ t_pc = "off" /\ NumVars = 1 /\ BatchSize = 1) =>
        /\ p_pc # "construct" =>
              /\ claims = <<FMul(leaves[1][1], leaves[1][2])>>
              /\ layers = <<leaves>>
        /\ p_rsc = <<>>
        /\ p_cubics = <<>>
        /\ \A i \in 1 .. Len(p_tr.log) : p_tr.log[i][2] # "poly"
        /\ p_pc = "done" =>
              /\ Len(p_proof) = 1
              /\ p_proof[1].proof = <<>>
              /\ p_proof[1].left_claims = <<leaves[1][1]>>
              /\ p_proof[1].right_claims = <<leaves[1][2]>>
              /\ p_r = <<LastChallenge(p_tr)>>
              /\ p_tr.log[Len(p_tr.log)][2] = "challenge_r_layer"
        /\ Honest =>
              /\ v_pc # "rejected"
              /\ v_pc = "done" =>
                    /\ v_r = <<LastChallenge(v_tr)>>
                    /\ v_tr.log[Len(v_tr.log)][2] = "challenge_r_layer"
                    /\ v_r = p_r

C18_Witness ==
    /\ h_pc = "off"
    /\ t_pc = "off"
    /\ NumVars = 1
    /\ BatchSize = 1
    /\ Honest
    /\ v_pc = "done"
    /\ Len(v_r) = 1
    /\ Len(p_proof) = 1
    /\ p_proof[1].proof = <<>>
    /\ leaves[1][1] # leaves[1][2]
    /\ claims[1] \notin {Zero, One}

(***************************************************************************)
(* Layers in which every value is one.                                     *)
(***************************************************************************)
\* Every tree of the batch is Sparse with no explicit entry.
C19_AllOnes(batch) ==
    \A b \in 1 .. Len(batch.layers) :
        batch.layers[b].tag = "Sparse" /\ batch.layers[b].sparse = <<>>

\* C19 (all-ones sparse layers): when every tree of a batch is Sparse and
\* empty, every bind leaves every tree Sparse and empty, final_claims
\* returns left = right = one for every tree, and the claims folded with any
\* r_layer are one; for the layer lengths 2 to 16 with two trees.
C19_AllOnesLayers ==
    /\ (h_pc \in {"ready", "done"} /\ h_pre # <<>>
            /\ C19_AllOnes(h_pre.sparse)) => C19_AllOnes(h_sparse)
    /\ (h_pc = "done" /\ C19_AllOnes(h_sparse)) =>
          /\ h_final.sparse.ok
          /\ \A b \in 1 .. Len(h_sparse.layers) :
                /\ h_final.sparse.left[b] = One
                /\ h_final.sparse.right[b] = One
          /\ \A r \in F :
                FoldClaims(h_final.sparse.left, h_final.sparse.right, r)
                    = [b \in 1 .. Len(h_sparse.layers) |-> One]

C19_Witness ==
    /\ h_pc = "done"
    /\ h_loop.len0 = 16
    /\ h_loop.round = 3
    /\ Len(h_sparse.layers) = 2
    /\ C19_AllOnes(h_pre.sparse)
    /\ C19_AllOnes(h_sparse)
    /\ h_pre.r \notin {Zero, One}
    /\ h_final.sparse.left = <<One, One>>
    /\ h_final.sparse.right = <<One, One>>


(***************************************************************************)
(* C20: the values of the explicit entries of a bound Sparse tree.         *)
(***************************************************************************)
\* The value a sparse vector carries at position p (0-based): the explicit
\* value if p is listed, one otherwise.
C20_ValueAt(sparse, p) ==
    LET hits == SelectSeq(sparse, LAMBDA en : en[1] = p)
    IN  IF hits = <<>> THEN One ELSE hits[1][2]

\* The input position of the low member of the pair folded into output
\* position o: 4i for o = 2i and 4i + 1 for o = 2i + 1; the high member is
\* two positions further.
C20_LowPosition(o) == IF o % 2 = 0 THEN 2 * o ELSE 2 * o - 1

C20_InputNotOne(layer) ==
    \A k \in 1 .. Len(layer.sparse) : layer.sparse[k][2] # One

C20_SparseToSparse(b) ==
    /\ t_in.layers[b].tag = "Sparse"
    /\ t_out.batch.layers[b].tag = "Sparse"
    /\ C20_InputNotOne(t_in.layers[b])

\* C20 as stated: if every explicit entry of a Sparse tree has value
\* different from one before bind(eq, r), then for every challenge r every
\* explicit entry of a Sparse output tree also has value different from one.
C20_ValuesNotOne ==
    (t_pc = "done" /\ t_out.op = "bind") =>
        \A b \in 1 .. Len(t_in.layers) :
            C20_SparseToSparse(b) =>
                \A k \in 1 .. Len(t_out.batch.layers[b].sparse) :
                    t_out.batch.layers[b].sparse[k][2] # One

\* C20 amended: if every explicit entry of a Sparse tree has value different
\* from one before bind(eq, r), then every explicit entry of a Sparse output
\* tree is emitted for a pair (low, high) of input positions of which at
\* least one is explicit, and its value is different from one for every
\* challenge r except the r with r * (high - low) = one - low, for which the
\* entry is emitted with value one.
C20_ValuesOneOnlyAtRoot ==
    (t_pc = "done" /\ t_out.op = "bind") =>
        \A b \in 1 .. Len(t_in.layers) :
            C20_SparseToSparse(b) =>
                \A k \in 1 .. Len(t_out.batch.layers[b].sparse) :
                    LET o == t_out.batch.layers[b].sparse[k][1]
                        v == t_out.batch.layers[b].sparse[k][2]
                        low == C20_ValueAt(t_in.layers[b].sparse,
                                           C20_LowPosition(o))
                        high == C20_ValueAt(t_in.layers[b].sparse,
                                            C20_LowPosition(o) + 2)
                    IN  /\ low # One \/ high # One
                        /\ v = One <=>
                              FMul(t_out.r, FSub(high, low)) = FSub(One, low)

\* A bind with a challenge other than 0 and 1 whose Sparse output holds an
\* explicit entry of value one next to an explicit entry of another value.
C20_Witness ==
    /\ t_pc = "done"
    /\ t_out.op = "bind"
    /\ t_out.r \notin {Zero, One}
    /\ \E b \in 1 .. Len(t_in.layers) :
          /\ C20_SparseToSparse(b)
          /\ \E k, m \in 1 .. Len(t_out.batch.layers[b].sparse) :
                /\ t_out.batch.layers[b].sparse[k][2] = One
                /\ t_out.batch.layers[b].sparse[m][2] # One


(***************************************************************************)
(* C21: the order of the indices of a bound Sparse tree.                   *)
(***************************************************************************)
\* The input has an entry at 4i + 1, none at 4i and an entry different from
\* one at 4i + 2.
C21_EarlyLeft(sparse, i) ==
    /\ \E k \in 1 .. Len(sparse) : sparse[k][1] = 4 * i + 1
    /\ \A k \in 1 .. Len(sparse) : sparse[k][1] # 4 * i
    /\ \E k \in 1 .. Len(sparse) :
          sparse[k][1] = 4 * i + 2 /\ sparse[k][2] # One

C21_Increasing(sparse, len) ==
    /\ \A k \in 1 .. Len(sparse) : sparse[k][1] \in 0 .. len - 1
    /\ \A k \in 1 .. Len(sparse) - 1 : sparse[k][1] < sparse[k + 1][1]

\* C21: for a Sparse tree with strictly increasing indices in [0, layer_len),
\* the Sparse output of bind has strictly increasing indices, all in
\* [0, layer_len / 2), none emitted twice; when an entry at 4i + 1 has no
\* explicit entry at 4i but an explicit non-one entry at 4i + 2, the left
\* fold at output index 2i is emitted right before the right fold at 2i + 1.
C21_MonotonicOutput ==
    (t_pc = "done" /\ t_out.op = "bind") =>
        \A b \in 1 .. Len(t_in.layers) :
            (/\ t_in.layers[b].tag = "Sparse"
             /\ t_out.batch.layers[b].tag = "Sparse"
             /\ C21_Increasing(t_in.layers[b].sparse, t_in.layer_len)) =>
                LET out == t_out.batch.layers[b].sparse
                IN  /\ C21_Increasing(out, t_in.layer_len \div 2)
                    /\ \A i \in 0 .. t_in.layer_len \div 4 - 1 :
                          C21_EarlyLeft(t_in.layers[b].sparse, i) =>
                              \E k \in 1 .. Len(out) - 1 :
                                 /\ out[k][1] = 2 * i
                                 /\ out[k + 1][1] = 2 * i + 1

\* A bind of a Sparse tree with the early left fold in a quartet that is not
\* the first, into a Sparse output of at least four entries.
C21_Witness ==
    /\ t_pc = "done"
    /\ t_out.op = "bind"
    /\ \E b \in 1 .. Len(t_in.layers) :
          /\ t_in.layers[b].tag = "Sparse"
          /\ t_out.batch.layers[b].tag = "Sparse"
          /\ Len(t_out.batch.layers[b].sparse) >= 4
          /\ \E i \in 1 .. t_in.layer_len \div 4 - 1 :
                C21_EarlyLeft(t_in.layers[b].sparse, i)


(***************************************************************************)
(* C22: the lengths of the trees of a batch and the shared layer_len.      *)
(***************************************************************************)
\* The two dynamic-density batches of the harness.
C22_Batches == <<h_sparse, h_alldense>>

C22_Before == <<h_pre.sparse, h_pre.alldense>>

\* C22 as stated: in every state reachable by any number of bind calls, every
\* Dense tree's value sequence has exactly layer_len elements.
C22_ExactLength ==
    h_pc # "off" =>
        \A c \in 1 .. 2 : \A b \in 1 .. Len(C22_Batches[c].layers) :
            C22_Batches[c].layers[b].tag = "Dense" =>
                Len(C22_Batches[c].layers[b].dense) = C22_Batches[c].layer_len

\* C22 amended: in every state reachable by any number of bind calls, every
\* tree covers the current length layer_len: the indices of a Sparse tree
\* are below layer_len and the value sequence of a Dense tree has at least
\* layer_len elements; it has exactly layer_len elements when the bind has
\* just allocated it for a Sparse tree, and the bind of a Dense tree leaves
\* the length of its sequence as it was.
C22_CoveredLength ==
    h_pc # "off" =>
        \A c \in 1 .. 2 : \A b \in 1 .. Len(C22_Batches[c].layers) :
            LET now == C22_Batches[c].layers[b]
                len == C22_Batches[c].layer_len
            IN  /\ now.tag = "Sparse" =>
                      \A k \in 1 .. Len(now.sparse) : now.sparse[k][1] < len
                /\ now.tag = "Dense" => Len(now.dense) >= len
                /\ h_pre # <<>> =>
                      LET was == C22_Before[c].layers[b]
                      IN  /\ C22_Before[c].layer_len = 2 * len
                          /\ (was.tag = "Sparse" /\ now.tag = "Dense") =>
                                Len(now.dense) = len
                          /\ was.tag = "Dense" =>
                                /\ now.tag = "Dense"
                                /\ Len(now.dense) = Len(was.dense)

\* After two binds, a tree the first bind made Dense holds twice layer_len
\* values, next to a tree that was Dense from the start and holds four times
\* layer_len.
C22_Witness ==
    /\ h_pc # "off"
    /\ h_loop.round = 2
    /\ h_pre # <<>>
    /\ \E b \in 1 .. Len(h_sparse.layers) :
          /\ h_sparse.layers[b].tag = "Dense"
          /\ Len(h_sparse.layers[b].dense) = 2 * h_sparse.layer_len
          /\ Len(h_alldense.layers[b].dense) = 4 * h_alldense.layer_len


(***************************************************************************)
(* C23: what previous_claim is equal to during prove_sumcheck.             *)
(***************************************************************************)
\* The sum over x in [0, Len(eq)) of eq[x] * sum over b of
\* coeffs[b] * layer_b[2x] * layer_b[2x + 1].
C23_Sum(eq, coeffs, batch) ==
    FSum([x \in 1 .. Len(eq) |->
        FMul(eq[x],
             FSum([b \in 1 .. Len(batch) |->
                 FMul(coeffs[b],
                      FMul(At(batch[b], 2 * (x - 1)),
                           At(batch[b], 2 * (x - 1) + 1)))]))])

\* C23: prove_sumcheck starts with previous_claim equal to the sum over x of
\* eq[x] * sum over b of coeffs[b] * layer_b[2x] * layer_b[2x + 1]; at the
\* start of every round previous_claim equals that sum over the bound eq
\* table and layers, and after the last round it equals
\* eq[0] * sum over b of coeffs[b] * left_claims[b] * right_claims[b].
C23_RoundInvariant ==
    /\ p_pc = "round" =>
          /\ \A b \in 1 .. Len(CurrentLayer) :
                Len(CurrentLayer[b]) = 2 * Len(p_eq)
          /\ p_prev = C23_Sum(p_eq, p_coeffs, CurrentLayer)
    /\ p_pc = "fold" =>
          p_prev = FMul(p_eq[1],
                        FSum([b \in 1 .. Len(p_coeffs) |->
                            FMul(p_coeffs[b],
                                 FMul(p_final[1][b], p_final[2][b]))]))

\* The prover of a batch of two trees after the second round of a layer's
\* sum-check, with a claim that is not zero.
C23_Witness ==
    /\ p_pc = "round"
    /\ Len(p_rsc) = 2
    /\ p_rounds = 2
    /\ Len(CurrentLayer) = 2
    /\ p_prev # Zero
    /\ p_eq[1] \notin {Zero, One}


(***************************************************************************)
(* C24: the order of the verifier's phases.                                *)
(***************************************************************************)
\* rounds_left of the layer's sum-check.
C24_RoundsLeft == v_k - Len(v_rsc)

\* The labels of the operations a step adds to the verifier's transcript.
C24_NewLabels ==
    IF Len(v_tr'.log) > Len(v_tr.log) /\ v_pc # "idle"
    THEN [j \in 1 .. Len(v_tr'.log) - Len(v_tr.log) |->
             v_tr'.log[Len(v_tr.log) + j][2]]
    ELSE <<>>

C24_ClaimLabels(B) ==
    [j \in 1 .. 2 * B |->
        IF j % 2 = 1 THEN "sumcheck left claim" ELSE "sumcheck right claim"]

C24_Step ==
    /\ v_pc = "idle" => v_pc' \in {"idle", "coeffs"}
    /\ v_pc = "coeffs" =>
          \/ /\ v_pc' = "sumcheck"
             /\ v_k < Len(v_proof)
             /\ v_k' = v_k
             /\ v_rsc' = <<>>
             /\ C24_NewLabels = <<"rand_coeffs_next_layer">>
             /\ v_e' = JointClaim(v_claims, v_coeffs')
          \/ /\ v_pc' = "rejected"
             /\ v_k < Len(v_proof)
          \/ /\ v_pc' = "done"
             /\ v_k = Len(v_proof)
             /\ C24_NewLabels = <<>>
    /\ v_pc = "sumcheck" =>
          /\ v_k' = v_k
          /\ \/ /\ v_pc' = "sumcheck"
                /\ C24_RoundsLeft > 0
                /\ C24_RoundsLeft' = C24_RoundsLeft - 1
                /\ C24_NewLabels = <<"poly", "challenge_nextround">>
             \/ /\ v_pc' = "check"
                /\ C24_RoundsLeft = 0
                /\ v_rsc' = v_rsc
                /\ Len(LayerRecord.left_claims) = Len(v_in)
                /\ Len(LayerRecord.right_claims) = Len(v_in)
                /\ C24_NewLabels = C24_ClaimLabels(Len(v_in))
             \/ /\ v_pc' = "rejected"
                /\ C24_NewLabels = <<>>
    /\ v_pc = "check" =>
          /\ v_k' = v_k
          /\ C24_NewLabels = <<>>
          /\ \/ /\ v_pc' = "fold"
                /\ C6_Expected = v_e
             \/ v_pc' = "rejected"
    /\ v_pc = "fold" =>
          /\ v_pc' = "coeffs"
          /\ v_k' = v_k + 1
          /\ C24_NewLabels = <<"challenge_r_layer">>
    /\ v_pc \in {"rejected", "done"} => UNCHANGED verifierVars
    /\ v_pc' = "done" => v_k' = Len(v_proof)
    /\ (\E j \in 1 .. Len(C24_NewLabels) :
           C24_NewLabels[j] = "challenge_r_layer") => v_pc = "fold"

\* C24: for every layer the verifier draws coeffs and forms the joint claim,
\* runs the sum-check with rounds_left from layer_index down to 0, checks the
\* claim-vector lengths and absorbs the claims, checks the expected claim,
\* then draws r_layer and folds, in this order and skipping none; r_layer is
\* drawn only after the expected-claim check has passed; the run is terminal
\* when the last layer has been folded or at the first rejection.
C24_PhaseOrder == [][C24_Step]_vars

\* The verifier has folded the third layer of a batch of two trees and
\* returned, after two sum-check rounds in that layer.
C24_Witness ==
    /\ v_pc = "done"
    /\ v_k = 3
    /\ Len(v_rsc) = 2
    /\ Len(v_in) = 2
    /\ Len(v_r) = 3


(***************************************************************************)
(* C25: the parallel tasks of one bind call.                               *)
(***************************************************************************)
\* The batch the call returns when its tasks run one after the other.
C25_Sequential ==
    IF t_in.kind = "sparse"
    THEN [layer_len |-> t_in.layer_len \div 2,
          layers |-> SparseBind(t_in, t_in.r).layers,
          eq |-> BoundPolyVarBot(t_in.eq, t_in.r)]
    ELSE [layer_len |-> 0,
          layers |-> [b \in 1 .. Len(t_in.layers) |->
                         VecLayer(DenseBindLayer(t_in.layers[b].dense, t_in.r))],
          eq |-> BoundPolyVarBot(t_in.eq, t_in.r)]

C25_Step ==
    t_pc = "forked" =>
        \* a step of one tree's task writes that tree only
        /\ \A b \in 1 .. Len(t_out.tasks) :
              t_out'.tasks[b] # t_out.tasks[b] =>
                 /\ \A c \in 1 .. Len(t_out.tasks) :
                       c # b => /\ t_out'.layers[c] = t_out.layers[c]
                                /\ t_out'.tasks[c] = t_out.tasks[c]
                 /\ t_out'.eq = t_out.eq
                 /\ t_out'.eq_done = t_out.eq_done
                 /\ t_out'.layer_len = t_out.layer_len
        \* the eq task writes the eq polynomial only
        /\ t_out'.eq_done # t_out.eq_done =>
              /\ t_out'.layers = t_out.layers
              /\ t_out'.tasks = t_out.tasks
              /\ t_out'.layer_len = t_out.layer_len
        \* a tree changes only by a step of its own task and the eq polynomial
        \* only by the eq task
        /\ \A b \in 1 .. Len(t_out.tasks) :
              t_out'.layers[b] # t_out.layers[b] =>
                 t_out'.tasks[b] # t_out.tasks[b]
        /\ t_out'.eq # t_out.eq => t_out'.eq_done # t_out.eq_done
        \* the length a task reads is the pre-bind one
        /\ \A b \in 1 .. Len(t_out.tasks) :
              (t_out.tasks[b].pc = "wait" /\ t_out'.tasks[b].pc = "run"
               /\ t_in.kind = "sparse") =>
                 t_out'.tasks[b].n = t_in.layer_len
        \* layer_len is halved after every task has joined
        /\ t_out'.layer_len # t_out.layer_len =>
              /\ t_pc' = "joined"
              /\ t_out.eq_done
              /\ \A b \in 1 .. Len(t_out.tasks) : t_out.tasks[b].pc = "done"
        \* whatever the interleaving was, the call returns the same batch
        /\ t_pc' = "joined" =>
              /\ t_out'.layer_len = C25_Sequential.layer_len
              /\ t_out'.layers = C25_Sequential.layers
              /\ t_out'.eq = C25_Sequential.eq

\* C25: within one bind call the per-tree tasks and the eq-polynomial task
\* write pairwise disjoint state and read only the pre-bind layer_len,
\* layer_len is halved only after all of them have joined, and the layers,
\* the eq polynomial and layer_len after the call are the same for every
\* interleaving of the tasks.
C25_RaceFree == [][C25_Step]_vars

\* A dynamic-density bind where the Dense tree's task ran to its end between
\* two iterations of the Sparse tree's task and before the eq task, joined.
C25_Witness ==
    /\ t_pc = "forked"
    /\ t_in.kind = "sparse"
    /\ t_in.layer_len = 8
    /\ ~t_out.eq_done
    /\ t_out.tasks[2].pc = "done"
    /\ t_out.tasks[1].pc = "run"
    /\ t_out.tasks[1].j \in 1 .. Len(t_in.layers[1].sparse) - 1
    /\ t_out.layers[2] # t_in.layers[2]


(***************************************************************************)
(* C26: the slots of the Dense output of a densifying bind.                *)
(***************************************************************************)
\* The (index, value) pairs bind hands to push_to_bound_layer, in order: the
\* pushes do not depend on how bound_layer was allocated.
C26_Emitted(sparse, r) ==
    SparseBindLoop([out |-> SparseLayer(<<>>), nextLeft |-> 0, nextRight |-> 0,
                    clean |-> TRUE, inside |-> TRUE],
                   sparse, 0, r).out.sparse

\* C26: when bind turns a Sparse tree into a Dense output of length
\* layer_len / 2, every emitted output index is below layer_len / 2, no slot
\* is written twice (the slot holds one when it is written), and every slot
\* that is never written holds one after the bind.
C26_SlotsWrittenOnce ==
    (t_pc = "done" /\ t_out.op = "bind") =>
        \A b \in 1 .. Len(t_in.layers) :
            (/\ t_in.layers[b].tag = "Sparse"
             /\ t_out.batch.layers[b].tag = "Dense") =>
                LET out == t_out.batch.layers[b].dense
                    emitted == C26_Emitted(t_in.layers[b].sparse, t_out.r)
                    run == SparseBindRun(t_in.layers[b].sparse,
                                         t_in.layer_len, t_out.r)
                IN  /\ Len(out) = t_in.layer_len \div 2
                    /\ \A k \in 1 .. Len(emitted) :
                          /\ emitted[k][1] \in 0 .. t_in.layer_len \div 2 - 1
                          /\ At(out, emitted[k][1]) = emitted[k][2]
                    /\ \A k, m \in 1 .. Len(emitted) :
                          k # m => emitted[k][1] # emitted[m][1]
                    /\ run.clean
                    /\ run.inside
                    /\ \A i \in 0 .. Len(out) - 1 :
                          (\A k \in 1 .. Len(emitted) : emitted[k][1] # i) =>
                             At(out, i) = One

\* A densifying bind of 17 entries of 20 that leaves an output slot
\* unwritten and writes a value other than one into another.
C26_Witness ==
    /\ t_pc = "done"
    /\ t_out.op = "bind"
    /\ \E b \in 1 .. Len(t_in.layers) :
          /\ t_in.layers[b].tag = "Sparse"
          /\ t_out.batch.layers[b].tag = "Dense"
          /\ LET emitted == C26_Emitted(t_in.layers[b].sparse, t_out.r)
             IN  /\ \E i \in 0 .. Len(t_out.batch.layers[b].dense) - 1 :
                       \A k \in 1 .. Len(emitted) : emitted[k][1] # i
                 /\ \E k \in 1 .. Len(emitted) : emitted[k][2] # One


(***************************************************************************)
(* C27: the assertions of the prover on a valid dynamic-density batch.     *)
(***************************************************************************)
\* The Sparse trees of a batch have strictly increasing indices below
\* layer_len.
C27_Valid(batch) ==
    \A b \in 1 .. Len(batch.layers) :
        batch.layers[b].tag = "Sparse" =>
            LET sparse == batch.layers[b].sparse
            IN  /\ \A k \in 1 .. Len(sparse) :
                      sparse[k][1] \in 0 .. batch.layer_len - 1
                /\ \A k \in 1 .. Len(sparse) - 1 :
                      sparse[k][1] < sparse[k + 1][1]

\* The assertions of prove_sumcheck, bind and final_claims for one batch
\* and the batch it was before the last bind.
C27_Quiet(batch, before) ==
    /\ C27_Valid(batch)
    /\ h_loop.round < h_loop.rounds => batch.layer_len % 4 = 0
    /\ h_pre # <<>> =>
          /\ before.layer_len % 4 = 0
          /\ \A b \in 1 .. Len(before.layers) :
                before.layers[b].tag = "Sparse" =>
                    LET run == SparseBindRun(before.layers[b].sparse,
                                             before.layer_len, h_pre.r)
                    IN  run.clean /\ run.inside
    /\ h_loop.round = h_loop.rounds =>
          /\ Len(batch.eq) = 1
          /\ batch.layer_len = 2
          /\ \A b \in 1 .. Len(batch.layers) :
                /\ batch.layers[b].tag = "Sparse" =>
                      Len(batch.layers[b].sparse) <= 2
                /\ batch.layers[b].tag = "Dense" =>
                      Len(batch.layers[b].dense) >= 2

\* C27: for an honest prove_sumcheck on a batched dynamic-density layer with
\* layer_len a power of two >= 2, an eq polynomial of length layer_len / 2
\* and Sparse trees with strictly increasing indices below layer_len, no
\* assertion fires: layer_len is divisible by four at every bind, the eq
\* polynomial has length 1 after the last round, layer_len is 2 when
\* final_claims runs, and no Sparse tree has more than two entries then.
C27_NoAssertionFires ==
    h_pc \in {"ready", "done"} =>
        /\ C27_Quiet(h_sparse, IF h_pre = <<>> THEN <<>> ELSE h_pre.sparse)
        /\ C27_Quiet(h_alldense, IF h_pre = <<>> THEN <<>> ELSE h_pre.alldense)
        /\ h_pc = "done" =>
              /\ h_final.eq_ok
              /\ h_final.sparse.ok
              /\ h_final.alldense.ok

\* prove_sumcheck has returned the claims of a batch of length 8 after two
\* binds, with a Sparse tree that still has two entries.
C27_Witness ==
    /\ h_pc = "done"
    /\ h_loop.len0 = 8
    /\ h_loop.round = 2
    /\ h_final.sparse.ok
    /\ \E b \in 1 .. Len(h_sparse.layers) :
          /\ h_sparse.layers[b].tag = "Sparse"
          /\ Len(h_sparse.layers[b].sparse) = 2
          /\ h_pre.sparse.layers[b].tag = "Sparse"
          /\ Len(h_pre.sparse.layers[b].sparse) >= 3


(***************************************************************************)
(* C28: the product of the values of a layer and of its layer_output.      *)
(***************************************************************************)
\* The product of the values of a layer, absent entries counted as one.
C28_Product(layer) ==
    IF layer.tag = "Sparse"
    THEN FProduct([k \in 1 .. Len(layer.sparse) |-> layer.sparse[k][2]])
    ELSE FProduct(layer.dense)

\* C28: for a dynamic-density layer of length 2 * output_len (Sparse with
\* strictly increasing indices, or Dense), layer_output(output_len) returns
\* a layer whose product of values equals the product of the input layer's
\* values, from Sparse to Sparse, from Sparse to Dense and from Dense to
\* Dense.
C28_ProductPreserved ==
    (t_pc = "done" /\ t_out.op = "layer_output") =>
        \A b \in 1 .. Len(t_in.layers) :
            /\ C28_Product(t_out.batch.layers[b]) = C28_Product(t_in.layers[b])
            /\ t_in.layers[b].tag = "Dense" =>
                  /\ Len(t_in.layers[b].dense) = 2 * t_out.batch.layer_len
                  /\ t_out.batch.layers[b].tag = "Dense"
                  /\ Len(t_out.batch.layers[b].dense) = t_out.batch.layer_len

\* A layer_output of a batch whose Sparse tree (with a left and a right node
\* of one pair among its entries) becomes Dense, both trees having a product
\* other than zero and one.
C28_Witness ==
    /\ t_pc = "done"
    /\ t_out.op = "layer_output"
    /\ t_in.layer_len >= 8
    /\ \E b, c \in 1 .. Len(t_in.layers) :
          /\ t_in.layers[b].tag = "Sparse"
          /\ t_out.batch.layers[b].tag = "Dense"
          /\ C28_Product(t_in.layers[b]) \notin {Zero, One}
          /\ t_in.layers[c].tag = "Dense"
          /\ C28_Product(t_in.layers[c]) \notin {Zero, One}


(***************************************************************************)
(* C29: what proving does to the stack of layers.                          *)
(***************************************************************************)
\* The stack as construct built it.
C29_Built == Construct(leaves)

\* The layer at stack position i (leaves at 1, root last) is proved as the
\* (NumLayers - i)-th; it has been entered, or left behind, by the prover.
C29_Entered(i) ==
    \/ NumLayers(layers) - i < p_k
    \/ NumLayers(layers) - i = p_k /\ p_pc \in {"round", "fold"}

C29_Left(i) ==
    \/ NumLayers(layers) - i < p_k
    \/ NumLayers(layers) - i = p_k /\ p_pc = "fold"

\* C29: prove_grand_product on a BatchedDenseGrandProduct built from leaves
\* of length L >= 2 never modifies the root layer (length 2, zero rounds),
\* so claims() returns the same vector after proving as before, while every
\* other layer of the stack is overwritten and shortened to length 2.
C29_RootUntouched ==
    p_pc # "construct" =>
        /\ NumLayers(layers) = NumLayers(C29_Built)
        /\ layers[NumLayers(layers)] = C29_Built[NumLayers(layers)]
        /\ Claims(layers) = claims
        /\ \A i \in 1 .. NumLayers(layers) :
              /\ ~C29_Entered(i) => layers[i] = C29_Built[i]
              /\ (C29_Entered(i) /\ ~C29_Left(i)) =>
                    \A b \in 1 .. Len(layers[i]) :
                       Len(layers[i][b]) * Pow2(Len(p_rsc))
                          = Len(C29_Built[i][b])
              /\ C29_Left(i) =>
                    \A b \in 1 .. Len(layers[i]) :
                       /\ Len(layers[i][b]) = 2
                       /\ LET rec == IF NumLayers(layers) - i < Len(p_proof)
                                     THEN p_proof[NumLayers(layers) - i + 1]
                                     ELSE LayerProof(p_cubics, p_final[1],
                                                     p_final[2])
                          IN  layers[i][b] = <<rec.left_claims[b],
                                               rec.right_claims[b]>>

\* The prover has returned on a stack of three layers of two trees: the
\* leaves are now two values per tree that differ from the first two leaves.
C29_Witness ==
    /\ p_pc = "done"
    /\ NumLayers(layers) = 3
    /\ Len(layers[1]) = 2
    /\ Len(C29_Built[1][1]) = 8
    /\ Len(layers[1][1]) = 2
    /\ layers[1][1] # SubSeq(C29_Built[1][1], 1, 2)
    /\ layers[2][2] # SubSeq(C29_Built[2][2], 1, 2)
    /\ layers[3] = C29_Built[3]


(***************************************************************************)
(* C30: the number of layer records the verifier is handed.                *)
(***************************************************************************)
\* How often the verifier's transcript was asked for a layer's coeffs.
C30_CoeffDraws ==
    Len(SelectSeq(v_tr.log, LAMBDA op : op[2] = "rand_coeffs_next_layer"))

\* C30: verify_grand_product does not constrain the number of layer records:
\* it processes exactly proof.layers.len() layers whatever that number is,
\* and for a proof with zero layer records it performs no transcript
\* operation and no check and returns the input claims unchanged together
\* with an empty r_grand_product.
C30_LayerCountUnconstrained ==
    v_pc # "idle" =>
        /\ v_k <= Len(v_proof)
        /\ v_pc = "done" =>
              /\ v_k = Len(v_proof)
              /\ Len(v_r) = Len(v_proof)
              /\ C30_CoeffDraws = Len(v_proof)
        /\ Len(v_proof) = 0 =>
              /\ v_pc \in {"coeffs", "done"}
              /\ v_tr = NewTranscript(tlabel)
              /\ v_claims = v_in
              /\ v_r = <<>>
              /\ v_why = ""

\* The verifier has returned on a proof without layer records handed in by
\* a prover whose stack has three layers.
C30_Witness ==
    /\ v_pc = "done"
    /\ Len(v_proof) = 0
    /\ NumLayers(layers) = 3
    /\ v_claims = claims
    /\ Len(v_in) = 2

=============================================================================
